---- MODULE Spec2Model ----
(***************************************************************************)
(* A model of the Yellow interpreter (src/src/lib.rs): the lexer and the   *)
(* parser as operators over character and token sequences, the evaluator   *)
(* as a small-step machine over an explicit stack of Rust activations, and *)
(* the host entry point run_code.                                          *)
(*                                                                         *)
(* Numbers.  f64 quantities are fixed-point integers: sanity and language  *)
(* numbers count hundredths (100.0 is 10000, 0.08 is 8), a pseudo_random   *)
(* draw counts ten-thousandths (0.7 is 7000), the lexer's corruption_level *)
(* counts thousandths (0.001 per advance is 1).                            *)
(*                                                                         *)
(* Clock.  Date::now() is an input: every operation that reads it draws    *)
(* the reading `now` (get_nanos) from Clock.                               *)
(***************************************************************************)
EXTENDS Integers, Sequences, FiniteSets, TLC

(***************************************************************************)
(* Characters and strings.  A string is a sequence of one-character        *)
(* strings.                                                                *)
(***************************************************************************)
LowerLetters ==
  {"a","b","c","d","e","f","g","h","i","j","k","l","m",
   "n","o","p","q","r","s","t","u","v","w","x","y","z"}

UpperLetters ==
  {"A","B","C","D","E","F","G","H","I","J","K","L","M",
   "N","O","P","Q","R","S","T","U","V","W","X","Y","Z"}

Digits == {"0","1","2","3","4","5","6","7","8","9"}

IsWhitespace(c) == c \in {" ", "\n", "\t"}

IsNumeric(c) == c \in Digits

IsAlphabetic(c) == c \in LowerLetters \cup UpperLetters

IsAlphanumeric(c) == IsAlphabetic(c) \/ IsNumeric(c)

DigitValue(c) ==
  CASE c = "0" -> 0 [] c = "1" -> 1 [] c = "2" -> 2 [] c = "3" -> 3
    [] c = "4" -> 4 [] c = "5" -> 5 [] c = "6" -> 6 [] c = "7" -> 7
    [] c = "8" -> 8 [] c = "9" -> 9

SetMin(S) == CHOOSE x \in S : \A y \in S : x <= y

IsNumberChar(c) == IsNumeric(c) \/ c = "."

IsIdentChar(c) == IsAlphanumeric(c) \/ c = "_"

\* The character classes the lexer's scanning loops test.
InClass(cls, c) ==
  CASE cls = "whitespace" -> IsWhitespace(c)
    [] cls = "number"     -> IsNumberChar(c)
    [] cls = "ident"      -> IsIdentChar(c)
    [] cls = "comment"    -> c # "\n"
    [] cls = "string"     -> c # "\""

\* A `while` loop of advance() over the characters of a class: the first
\* index at or after pos whose character is outside the class, or Len + 1.
ScanWhile(cls, input, pos) ==
  LET stop == {i \in pos..Len(input) : ~InClass(cls, input[i])}
  IN  IF stop = {} THEN Len(input) + 1 ELSE SetMin(stop)

\* pseudo_random(seed) under the clock reading now, in ten-thousandths.
pseudo_random(now, seed) == (now + seed) % 10000

(***************************************************************************)
(* Lexer.  pos is the 1-based index of current_char; Lexer::position is    *)
(* pos - 1, and corruption_level (0.001 per advance) is pos - 1            *)
(* thousandths.  clk = [now, drift]: the clock reading and the elapsed     *)
(* time fraction (elapsed % 100) / 100 in hundredths.                      *)
(***************************************************************************)
Tok(t) == [t |-> t, s |-> <<>>, n |-> 0]

TokIdentifier(s) == [t |-> "Identifier", s |-> s, n |-> 0]

TokNumber(n) == [t |-> "Number", s |-> <<>>, n |-> n]

TokString(s) == [t |-> "String", s |-> s, n |-> 0]

corruption_level(pos) == pos - 1

\* str::parse::<f64>().unwrap_or(0.0) of a run of digits and dots, in
\* hundredths (digits after the second decimal place are dropped).
RECURSIVE DigitsValue(_)
DigitsValue(ds) ==
  IF ds = <<>> THEN 0
  ELSE 10 * DigitsValue(SubSeq(ds, 1, Len(ds) - 1)) + DigitValue(ds[Len(ds)])

ParseF64(num_str) ==
  LET dots == {i \in 1..Len(num_str) : num_str[i] = "."}
  IN  IF dots = {} THEN 100 * DigitsValue(num_str)
      ELSE IF Cardinality(dots) > 1 THEN 0
      ELSE LET d    == SetMin(dots)
               int  == SubSeq(num_str, 1, d - 1)
               frac == SubSeq(num_str, d + 1, Len(num_str))
               f2   == SubSeq(frac \o <<"0", "0">>, 1, 2)
           IN  100 * DigitsValue(int) + DigitsValue(f2)

\* read_number: [v, pos]
read_number(input, pos, clk) ==
  LET end == ScanWhile("number", input, pos)
      num == ParseF64(SubSeq(input, pos, end - 1))
      c   == corruption_level(end)
  IN  [v   |-> IF c > 500
                 THEN num + (((num * (c - 500)) \div 100)
                              * pseudo_random(clk.now, end - 1)) \div 1000000
                 ELSE num,
       pos |-> end]

\* corrupt_string(s, corruption)
corrupt_string(s, corruption, now) ==
  [i \in 1..Len(s) |->
     IF pseudo_random(now, i - 1) < corruption * 3
       THEN LET x == pseudo_random(now, i)
            IN  IF x > 8000 THEN " "
                ELSE IF x > 6000 THEN "<diamond>"
                ELSE IF x > 4000 THEN "<warning>"
                ELSE s[i]
       ELSE s[i]]

\* read_string: [v, pos]; pos is at the opening quote.
read_string(input, pos, clk) ==
  LET close  == ScanWhile("string", input, pos + 1)
      result == SubSeq(input, pos + 1, close - 1)
      end    == IF close <= Len(input) THEN close + 1 ELSE close
  IN  [v   |-> IF corruption_level(end) > 700
                 THEN corrupt_string(result, corruption_level(end), clk.now)
                 ELSE result,
       pos |-> end]

Keywords ==
  [act |-> "Act", scene |-> "Scene", mask |-> "Mask", echo |-> "Echo",
   Hastur |-> "Hastur", Cassilda |-> "Cassilda", Carcosa |-> "Carcosa",
   pallid |-> "Pallid", yellow |-> "Yellow", tattered |-> "Tattered",
   rewrite |-> "Rewrite", remember |-> "Remember", forget |-> "Forget",
   superpose |-> "Superpose", collapse |-> "Collapse", infect |-> "Infect",
   whisper |-> "Whisper", manifest |-> "Manifest", entangle |-> "Entangle",
   anchor |-> "Anchor", rift |-> "Rift"]

KeywordSpelling ==
  [act |-> <<"a","c","t">>, scene |-> <<"s","c","e","n","e">>,
   mask |-> <<"m","a","s","k">>, echo |-> <<"e","c","h","o">>,
   Hastur |-> <<"H","a","s","t","u","r">>,
   Cassilda |-> <<"C","a","s","s","i","l","d","a">>,
   Carcosa |-> <<"C","a","r","c","o","s","a">>,
   pallid |-> <<"p","a","l","l","i","d">>,
   yellow |-> <<"y","e","l","l","o","w">>,
   tattered |-> <<"t","a","t","t","e","r","e","d">>,
   rewrite |-> <<"r","e","w","r","i","t","e">>,
   remember |-> <<"r","e","m","e","m","b","e","r">>,
   forget |-> <<"f","o","r","g","e","t">>,
   superpose |-> <<"s","u","p","e","r","p","o","s","e">>,
   collapse |-> <<"c","o","l","l","a","p","s","e">>,
   infect |-> <<"i","n","f","e","c","t">>,
   whisper |-> <<"w","h","i","s","p","e","r">>,
   manifest |-> <<"m","a","n","i","f","e","s","t">>,
   entangle |-> <<"e","n","t","a","n","g","l","e">>,
   anchor |-> <<"a","n","c","h","o","r">>,
   rift |-> <<"r","i","f","t">>]

\* get_keyword_or_identifier(id) with the lexer at pos.
get_keyword_or_identifier(id, pos, clk) ==
  LET position   == pos - 1
      corruption == corruption_level(pos)
      kw         == {k \in DOMAIN KeywordSpelling : KeywordSpelling[k] = id}
  IN  IF corruption > 800 /\ pseudo_random(clk.now, position) > 7000
        THEN LET x == pseudo_random(clk.now, position + 1)
             IN  IF x > 8000 THEN Tok("Hastur")
                 ELSE IF x > 6000 THEN Tok("Whisper")
                 ELSE IF x > 4000 THEN Tok("Rift")
                 ELSE Tok("Infect")
      ELSE IF kw # {} THEN Tok(Keywords[CHOOSE k \in kw : TRUE])
      ELSE IF id = <<"t","h","e">> /\ clk.drift > 70 THEN Tok("Hastur")
      ELSE IF id = <<"a","n","d">> /\ clk.drift > 80 THEN Tok("Merged")
      ELSE IF id = <<"n","o","t">> /\ clk.drift > 60 THEN Tok("Tattered")
      ELSE IF id = <<"i","s">> /\ corruption > 600 THEN Tok("Becomes")
      ELSE TokIdentifier(id)

Punctuation ==
  [c \in {"(", ")", "{", "}", ",", ";", "+", "*", "/", ">", "<"} |->
     CASE c = "(" -> "LParen" [] c = ")" -> "RParen"
       [] c = "{" -> "LBrace" [] c = "}" -> "RBrace"
       [] c = "," -> "Comma"  [] c = ";" -> "Semicolon"
       [] c = "+" -> "Merged" [] c = "*" -> "Reflected"
       [] c = "/" -> "Shattered"
       [] c = ">" -> "Ascending" [] c = "<" -> "Descending"]

CharAt(input, pos) == IF pos <= Len(input) THEN input[pos] ELSE "<none>"

\* One turn of the loop of Lexer::tokenize at the non-blank character at
\* pos: [tokens, pos], the tokens pushed (none or one) and the index after.
lex_step(input, pos, clk) ==
  LET c    == CharAt(input, pos)
      next == CharAt(input, pos + 1)
  IN  CASE c = "#" ->
             [tokens |-> <<>>, pos |-> ScanWhile("comment", input, pos)]
        [] c \in DOMAIN Punctuation ->
             [tokens |-> <<Tok(Punctuation[c])>>, pos |-> pos + 1]
        [] c = "\"" ->
             LET r == read_string(input, pos, clk)
             IN  [tokens |-> <<TokString(r.v)>>, pos |-> r.pos]
        [] c = "-" ->
             IF next = ">" THEN [tokens |-> <<Tok("Becomes")>>, pos |-> pos + 2]
                           ELSE [tokens |-> <<Tok("Torn")>>, pos |-> pos + 1]
        [] c = "=" ->
             IF next = "=" THEN [tokens |-> <<Tok("Whispers")>>, pos |-> pos + 2]
                           ELSE [tokens |-> <<Tok("Becomes")>>, pos |-> pos + 1]
        [] c = "!" ->
             IF next = "=" THEN [tokens |-> <<Tok("Screams")>>, pos |-> pos + 2]
                           ELSE [tokens |-> <<>>, pos |-> pos + 1]
        [] IsNumeric(c) ->
             LET r == read_number(input, pos, clk)
             IN  [tokens |-> <<TokNumber(r.v)>>, pos |-> r.pos]
        [] IsAlphabetic(c) \/ c = "_" ->
             LET end == ScanWhile("ident", input, pos)
                 id  == SubSeq(input, pos, end - 1)
             IN  [tokens |-> <<get_keyword_or_identifier(id, end, clk)>>, pos |-> end]
        [] OTHER -> [tokens |-> <<>>, pos |-> pos + 1]

\* A turn that does not consume a `!` that starts no token.
lex_turn_bang_stuck(input, lx, clk) ==
  LET pos  == ScanWhile("whitespace", input, lx.pos)
      step == lex_step(input, pos, clk)
  IN  IF lx.done THEN lx
      ELSE IF pos > Len(input)
        THEN [tokens |-> Append(lx.tokens, Tok("Eof")), pos |-> pos, done |-> TRUE]
      ELSE IF CharAt(input, pos) = "!" /\ CharAt(input, pos + 1) # "="
        THEN [tokens |-> lx.tokens, pos |-> pos, done |-> FALSE]
      ELSE [tokens |-> lx.tokens \o step.tokens, pos |-> step.pos, done |-> FALSE]

\* One turn of the loop of Lexer::tokenize on the lexer state lx =
\* [tokens, pos, done]: skip_whitespace, then Eof and the break at the end of
\* the input, or lex_step.
lex_turn(input, lx, clk) ==
  LET pos  == ScanWhile("whitespace", input, lx.pos)
      step == lex_step(input, pos, clk)
  IN  IF lx.done THEN lx
      ELSE IF pos > Len(input)
        THEN [tokens |-> Append(lx.tokens, Tok("Eof")), pos |-> pos, done |-> TRUE]
      ELSE [tokens |-> lx.tokens \o step.tokens, pos |-> step.pos, done |-> FALSE]

\* n turns of the loop of Lexer::tokenize, taken half by half so that the
\* evaluation nests to a depth of log n.
RECURSIVE lex_turns(_, _, _, _)
lex_turns(input, lx, n, clk) ==
  IF lx.done \/ n = 0 THEN lx
  ELSE IF n = 1 THEN lex_turn(input, lx, clk)
  ELSE LET half == lex_turns(input, lx, n \div 2, clk)
       IN  lex_turns(input, half, n - (n \div 2), clk)

\* Lexer::tokenize: every turn but the last consumes a character, so the
\* loop breaks within Len(input) + 1 turns.
tokenize(input, clk) ==
  lex_turns(input, [tokens |-> <<>>, pos |-> 1, done |-> FALSE],
            Len(input) + 1, clk).tokens

(***************************************************************************)
(* AST.  An expression is a record tagged e, a statement a record tagged   *)
(* s; an Option is a sequence of length 0 or 1.                            *)
(***************************************************************************)
(***************************************************************************)
(* Parser.  The parser state p = [tokens, pos, sanity, ast_mutations, now] *)
(* holds Parser's fields (pos is 0-based as in the source, sanity counts   *)
(* hundredths) and the clock reading of get_nanos.  A parse function       *)
(* returns [p, r, v]: r = "ok" with the value v, r = "err" with the error  *)
(* string v, or r = "hang" when a loop of the source runs on a state it    *)
(* never changes and so never exits.                                       *)
(***************************************************************************)
NewParser(tokens, now) ==
  [tokens |-> tokens, pos |-> 0, sanity |-> 10000, ast_mutations |-> 0,
   now |-> now]

current(p) ==
  IF p.pos < Len(p.tokens) THEN p.tokens[p.pos + 1] ELSE Tok("Eof")

\* corrupt_upcoming_tokens: an identifier among the next three tokens
\* becomes a whisper token when its draw exceeds 0.5.
corrupt_upcoming_tokens(p) ==
  [p EXCEPT !.tokens =
     [i \in 1..Len(p.tokens) |->
        LET idx == i - 1
        IN  IF /\ idx >= p.pos
               /\ idx < p.pos + 3
               /\ p.tokens[i].t = "Identifier"
               /\ pseudo_random(p.now, idx) > 5000
              THEN Tok("Whisper")
              ELSE p.tokens[i]]]

advance(p) ==
  LET q == [p EXCEPT !.pos = p.pos + 1, !.sanity = p.sanity - 15]
  IN  IF q.sanity < 3000 /\ pseudo_random(q.now, q.pos) > 9000
        THEN corrupt_upcoming_tokens(q)
        ELSE q

base_errors ==
  << "The symbols twist before your eyes",
     "Syntax bleeds into meaning",
     "Expected coherence, found void" >>

madness_errors ==
  << "Have you seen the Yellow Sign?",
     "Cassilda awaits in Carcosa",
     "The King watches your code",
     "Reality is negotiable",
     "The compiler dreams in yellow" >>

generate_error(p) ==
  IF p.sanity < 5000
    THEN madness_errors[(p.pos % Len(madness_errors)) + 1]
    ELSE base_errors[(p.pos % Len(base_errors)) + 1]

POk(p, v) == [p |-> p, r |-> "ok", v |-> v]

PErr(p) == [p |-> p, r |-> "err", v |-> generate_error(p)]

PHang(p) == [p |-> p, r |-> "hang", v |-> "never returns"]

expect(p, t) == IF current(p).t = t THEN POk(advance(p), <<>>) ELSE PErr(p)

\* One bit (of weight w) of the exclusive or of four naturals.
XorBit(a, b, c, d, w) ==
  w * (((a \div w) + (b \div w) + (c \div w) + (d \div w)) % 2)

\* The low 17 bits of a ^ b ^ c ^ d.
Xor(a, b, c, d) ==
    XorBit(a, b, c, d, 1) + XorBit(a, b, c, d, 2) + XorBit(a, b, c, d, 4)
  + XorBit(a, b, c, d, 8) + XorBit(a, b, c, d, 16) + XorBit(a, b, c, d, 32)
  + XorBit(a, b, c, d, 64) + XorBit(a, b, c, d, 128) + XorBit(a, b, c, d, 256)
  + XorBit(a, b, c, d, 512) + XorBit(a, b, c, d, 1024) + XorBit(a, b, c, d, 2048)
  + XorBit(a, b, c, d, 4096) + XorBit(a, b, c, d, 8192) + XorBit(a, b, c, d, 16384)
  + XorBit(a, b, c, d, 32768) + XorBit(a, b, c, d, 65536)

\* compute_perception_hash, modulo 100 (the evaluator reads the hash only
\* as perception_hash % 100).  0xDEADBEEF is 28502 * 2^17 + 114415, and the
\* other operands are below 2^17 ((sanity * 1000) as u64 saturates at 0
\* and is at most 100000), so the exclusive or changes the low 17 bits only.
compute_perception_hash(p) ==
  LET scaled == IF p.sanity < 0 THEN 0 ELSE p.sanity * 10
      low == Xor(scaled, p.pos, 114415, p.ast_mutations)
  IN  ((28502 * 72) + low) % 100

BinaryOp(p, left, op, right) ==
  [e |-> "BinaryOp", left |-> left, op |-> op, right |-> right,
   perception_hash |-> compute_perception_hash(p),
   stability |-> 10000 - p.sanity]

ComparisonOps ==
  [Whispers |-> "Eq", Screams |-> "Neq", Ascending |-> "Gt", Descending |-> "Lt"]

TermOps == [Merged |-> "Add", Torn |-> "Sub"]

FactorOps == [Reflected |-> "Mul", Shattered |-> "Div"]

\* The grammar's functions call one another through parse(rule, p, x): x is
\* the rule's second argument where it has one.
RECURSIVE parse(_, _, _), parse_act_params(_, _)

\* The one element of a singleton set: The({e(x) : x \in {v}}) is e(v).
The(S) == CHOOSE x \in S : TRUE

\* `while current != RBrace && current != Eof { body.push(parse_statement()?) }`
\* One turn of that loop; st is [p, r, v] with r = "more" and the body v
\* while the loop runs.
parse_block_turn(st) ==
  IF current(st.p).t \in {"RBrace", "Eof"} THEN POk(st.p, st.v)
  ELSE The({ IF s.r # "ok" THEN s
             ELSE [p |-> s.p, r |-> "more", v |-> Append(st.v, s.v)] :
             s \in {parse("statement", st.p, <<>>)} })

\* n turns of the loop, taken half by half so that the evaluation nests to
\* a depth of log n.
RECURSIVE parse_block_loop(_, _)
parse_block_loop(st, n) ==
  IF st.r # "more" \/ n = 0 THEN st
  ELSE IF n = 1 THEN parse_block_turn(st)
  ELSE LET half == parse_block_loop(st, n \div 2)
       IN  parse_block_loop(half, n - (n \div 2))

\* A statement consumes at least one token, so the loop returns within one
\* turn more than there are tokens left.
parse_block(p, body) ==
  parse_block_loop([p |-> p, r |-> "more", v |-> body], Len(p.tokens) - p.pos + 1)

\* expect(LBrace); the statements; expect(RBrace)
parse_braced(p) ==
  LET lb == expect(p, "LBrace")
  IN  IF lb.r # "ok" THEN lb
      ELSE LET body == parse("block", lb.p, <<>>)
           IN  IF body.r # "ok" THEN body
               ELSE LET rb == expect(body.p, "RBrace")
                    IN  IF rb.r # "ok" THEN rb ELSE POk(rb.p, body.v)

\* expect(LParen); parse_expression; expect(RParen)
parse_parenthesized(p) ==
  LET lp == expect(p, "LParen")
  IN  IF lp.r # "ok" THEN lp
      ELSE LET ex == parse("expression", lp.p, <<>>)
           IN  IF ex.r # "ok" THEN ex
               ELSE LET rp == expect(ex.p, "RParen")
                    IN  IF rp.r # "ok" THEN rp ELSE POk(rp.p, ex.v)

parse_mask(p0) ==
  LET p == advance(p0)
  IN  IF current(p).t = "Identifier"
        THEN LET name == current(p).s
                 be   == expect(advance(p), "Becomes")
             IN  IF be.r # "ok" THEN be
                 ELSE LET value == parse("expression", be.p, <<>>)
                      IN  IF value.r # "ok" THEN value
                          ELSE LET semi == expect(value.p, "Semicolon")
                               IN  IF semi.r # "ok" THEN semi
                                   ELSE POk(semi.p, [s |-> "Mask", name |-> name,
                                                     value |-> value.v])
        ELSE PErr(p)

parse_echo(p0) ==
  LET ex == parse_parenthesized(advance(p0))
  IN  IF ex.r # "ok" THEN ex
      ELSE LET semi == expect(ex.p, "Semicolon")
           IN  IF semi.r # "ok" THEN semi
               ELSE POk(semi.p, [s |-> "Echo", expr |-> ex.v])

parse_scene(p0) ==
  LET body == parse_braced(advance(p0))
  IN  IF body.r # "ok" THEN body
      ELSE POk(body.p, [s |-> "Scene", body |-> body.v])

\* parse_hastur and parse_rift: they differ in the is_rift tag only.
parse_loop(p0, is_rift) ==
  LET cond == parse_parenthesized(advance(p0))
  IN  IF cond.r # "ok" THEN cond
      ELSE LET body == parse_braced(cond.p)
           IN  IF body.r # "ok" THEN body
               ELSE POk(body.p, [s |-> "Hastur", condition |-> cond.v,
                                 body |-> body.v, is_rift |-> is_rift])

parse_hastur(p0) == parse_loop(p0, FALSE)

parse_rift(p0) == parse_loop(p0, TRUE)

parse_cassilda(p0) ==
  LET cond == parse_parenthesized(advance(p0))
  IN  IF cond.r # "ok" THEN cond
      ELSE LET body == parse_braced(cond.p)
           IN  IF body.r # "ok" THEN body
               ELSE POk(body.p, [s |-> "Cassilda", condition |-> cond.v,
                                 then_branch |-> body.v, else_branch |-> <<>>])

parse_carcosa(p0) ==
  LET p == advance(p0)
  IN  IF current(p).t = "Semicolon"
        THEN POk(advance(p), [s |-> "Carcosa", expr |-> <<>>])
        ELSE LET value == parse("expression", p, <<>>)
             IN  IF value.r # "ok" THEN value
                 ELSE LET semi == expect(value.p, "Semicolon")
                      IN  IF semi.r # "ok" THEN semi
                          ELSE POk(semi.p, [s |-> "Carcosa", expr |-> <<value.v>>])

\* `while current != RParen { if let Identifier(param) = current { ... } }`:
\* on a token that is neither RParen nor an identifier the body does
\* nothing, the parser state is unchanged and the loop never exits.
parse_act_params(p, params) ==
  IF current(p).t = "RParen" THEN POk(p, params)
  ELSE IF current(p).t = "Identifier"
    THEN LET q == advance(p)
         IN  parse_act_params(IF current(q).t = "Comma" THEN advance(q) ELSE q,
                              Append(params, current(p).s))
  ELSE PHang(p)

parse_act(p0) ==
  LET p == advance(p0)
  IN  IF current(p).t = "Identifier"
        THEN LET name == current(p).s
                 lp   == expect(advance(p), "LParen")
             IN  IF lp.r # "ok" THEN lp
                 ELSE LET params == parse_act_params(lp.p, <<>>)
                      IN  IF params.r # "ok" THEN params
                          ELSE LET rp == expect(params.p, "RParen")
                               IN  IF rp.r # "ok" THEN rp
                                   ELSE LET body == parse_braced(rp.p)
                                        IN  IF body.r # "ok" THEN body
                                            ELSE POk(body.p,
                                                     [s |-> "Act", name |-> name,
                                                      params |-> params.v,
                                                      body |-> body.v])
        ELSE PErr(p)

\* parse_rewrite_stmt, parse_remember, parse_forget, parse_infect:
\* keyword IDENT ";"
parse_named(p0, kind) ==
  LET p == advance(p0)
  IN  IF current(p).t = "Identifier"
        THEN LET semi == expect(advance(p), "Semicolon")
             IN  IF semi.r # "ok" THEN semi
                 ELSE POk(semi.p,
                          IF kind = "Rewrite"
                            THEN [s |-> "Rewrite", target |-> current(p).s]
                            ELSE [s |-> kind, name |-> current(p).s])
        ELSE PErr(p)

parse_rewrite_stmt(p0) == parse_named(p0, "Rewrite")

parse_remember(p0) == parse_named(p0, "Remember")

parse_forget(p0) == parse_named(p0, "Forget")

parse_infect(p0) == parse_named(p0, "Infect")

parse_whisper(p0) ==
  LET p == advance(p0)
  IN  IF current(p).t = "String"
        THEN LET semi == expect(advance(p), "Semicolon")
             IN  IF semi.r # "ok" THEN semi
                 ELSE POk(semi.p, [s |-> "Whisper", code |-> current(p).s])
        ELSE PErr(p)

parse_anchor(p0) ==
  LET semi == expect(advance(p0), "Semicolon")
  IN  IF semi.r # "ok" THEN semi ELSE POk(semi.p, [s |-> "Anchor"])

parse_statement(p) ==
  LET t == current(p).t
  IN  CASE t = "Mask"     -> parse_mask(p)
        [] t = "Echo"     -> parse_echo(p)
        [] t = "Scene"    -> parse_scene(p)
        [] t = "Hastur"   -> parse_hastur(p)
        [] t = "Cassilda" -> parse_cassilda(p)
        [] t = "Carcosa"  -> parse_carcosa(p)
        [] t = "Act"      -> parse_act(p)
        [] t = "Rewrite"  -> parse_rewrite_stmt(p)
        [] t = "Remember" -> parse_remember(p)
        [] t = "Forget"   -> parse_forget(p)
        [] t = "Infect"   -> parse_infect(p)
        [] t = "Whisper"  -> parse_whisper(p)
        [] t = "Anchor"   -> parse_anchor(p)
        [] t = "Rift"     -> parse_rift(p)
        [] OTHER ->
             LET ex == parse("expression", p, <<>>)
             IN  IF ex.r # "ok" THEN ex
                 ELSE LET semi == expect(ex.p, "Semicolon")
                      IN  IF semi.r # "ok" THEN semi
                          ELSE POk(semi.p, [s |-> "ExprStmt", expr |-> ex.v])

parse_expression(p) == parse("comparison_loop", p, <<>>)

\* parse_comparison: left is <<>> before the first term is parsed.
parse_comparison_loop(p, left) ==
  IF left = <<>>
    THEN LET l == parse("term", p, <<>>)
         IN  IF l.r # "ok" THEN l ELSE parse("comparison_loop", l.p, <<l.v>>)
  ELSE IF current(p).t \in DOMAIN ComparisonOps
    THEN LET right == parse("term", advance(p), <<>>)
         IN  IF right.r # "ok" THEN right
             ELSE parse("comparison_loop",
                    right.p,
                    <<BinaryOp(right.p, left[1], ComparisonOps[current(p).t], right.v)>>)
  ELSE POk(p, left[1])

parse_term(p) ==
  LET l == parse("factor", p, <<>>)
  IN  IF l.r # "ok" THEN l ELSE parse("term_loop", l.p, l.v)

parse_term_loop(p, left) ==
  IF current(p).t \in DOMAIN TermOps
    THEN LET right == parse("factor", advance(p), <<>>)
         IN  IF right.r # "ok" THEN right
             ELSE parse("term_loop",
                    right.p, BinaryOp(right.p, left, TermOps[current(p).t], right.v))
    ELSE POk(p, left)

parse_factor(p) ==
  LET l == parse("primary", p, <<>>)
  IN  IF l.r # "ok" THEN l ELSE parse("factor_loop", l.p, l.v)

parse_factor_loop(p, left) ==
  IF current(p).t \in DOMAIN FactorOps
    THEN LET right == parse("primary", advance(p), <<>>)
         IN  IF right.r # "ok" THEN right
             ELSE parse("factor_loop",
                    right.p, BinaryOp(right.p, left, FactorOps[current(p).t], right.v))
    ELSE POk(p, left)

\* `while current != RParen { args.push(parse_expression()?); if Comma advance }`
parse_args(p, args) ==
  IF current(p).t = "RParen" THEN POk(p, args)
  ELSE LET ex == parse("expression", p, <<>>)
       IN  IF ex.r # "ok" THEN ex
           ELSE parse("args", IF current(ex.p).t = "Comma" THEN advance(ex.p) ELSE ex.p,
                           Append(args, ex.v))

\* args up to the closing parenthesis, which is consumed; p is after "(".
parse_arg_list(p) ==
  LET args == parse("args", p, <<>>)
  IN  IF args.r # "ok" THEN args
      ELSE LET rp == expect(args.p, "RParen")
           IN  IF rp.r # "ok" THEN rp ELSE POk(rp.p, args.v)

parse_primary(p) ==
  LET t == current(p).t
  IN  CASE t = "Number"   -> POk(advance(p), [e |-> "Number", n |-> current(p).n])
        [] t = "String"   -> POk(advance(p), [e |-> "String", str |-> current(p).s])
        [] t = "Yellow"   -> POk(advance(p), [e |-> "Boolean", b |-> TRUE])
        [] t = "Tattered" -> POk(advance(p), [e |-> "Boolean", b |-> FALSE])
        [] t = "Identifier" ->
             LET q == advance(p)
             IN  IF current(q).t = "LParen"
                   THEN LET args == parse_arg_list(advance(q))
                        IN  IF args.r # "ok" THEN args
                            ELSE POk(args.p, [e |-> "Call", name |-> current(p).s,
                                              args |-> args.v])
                   ELSE POk(q, [e |-> "Identifier", name |-> current(p).s])
        [] t = "LParen" -> parse_parenthesized(p)
        [] t = "Superpose" ->
             LET lp == expect(advance(p), "LParen")
             IN  IF lp.r # "ok" THEN lp
                 ELSE LET args == parse_arg_list(lp.p)
                      IN  IF args.r # "ok" THEN args
                          ELSE POk(args.p, [e |-> "Superpose", exprs |-> args.v])
        [] t = "Collapse" ->
             LET ex == parse_parenthesized(advance(p))
             IN  IF ex.r # "ok" THEN ex
                 ELSE POk(ex.p, [e |-> "Collapse", expr |-> ex.v])
        [] t = "Manifest" ->
             LET lp == expect(advance(p), "LParen")
             IN  IF lp.r # "ok" THEN lp
                 ELSE IF current(lp.p).t = "Identifier"
                   THEN LET rp == expect(advance(lp.p), "RParen")
                        IN  IF rp.r # "ok" THEN rp
                            ELSE POk(rp.p, [e |-> "Manifest", name |-> current(lp.p).s])
                   ELSE PErr(lp.p)
        [] t = "Entangle" ->
             LET lp == expect(advance(p), "LParen")
             IN  IF lp.r # "ok" THEN lp
                 ELSE IF current(lp.p).t # "Identifier" THEN PErr(lp.p)
                 ELSE LET comma == expect(advance(lp.p), "Comma")
                      IN  IF comma.r # "ok" THEN comma
                          ELSE IF current(comma.p).t # "Identifier" THEN PErr(comma.p)
                          ELSE LET rp == expect(advance(comma.p), "RParen")
                               IN  IF rp.r # "ok" THEN rp
                                   ELSE POk(rp.p, [e |-> "Entangle",
                                                   var1 |-> current(lp.p).s,
                                                   var2 |-> current(comma.p).s])
        [] t = "Rift" ->
             LET ex == parse_parenthesized(advance(p))
             IN  IF ex.r # "ok" THEN ex
                 ELSE POk(ex.p, [e |-> "Rift", expr |-> ex.v])
        [] t = "Rewrite" ->
             LET target == parse("primary", advance(p), <<>>)
             IN  IF target.r # "ok" THEN target
                 ELSE POk(target.p, [e |-> "Rewrite", target |-> target.v,
                                     mutation_seed |-> p.now])
        [] OTHER -> PErr(p)

\* The call of a grammar function by its name.
parse(rule, p, x) ==
  CASE rule = "statement"       -> parse_statement(p)
    [] rule = "block"           -> parse_block(p, x)
    [] rule = "expression"      -> parse_expression(p)
    [] rule = "comparison_loop" -> parse_comparison_loop(p, x)
    [] rule = "term"            -> parse_term(p)
    [] rule = "term_loop"       -> parse_term_loop(p, x)
    [] rule = "factor"          -> parse_factor(p)
    [] rule = "factor_loop"     -> parse_factor_loop(p, x)
    [] rule = "primary"         -> parse_primary(p)
    [] rule = "args"            -> parse_args(p, x)

RealityFragments ==
  <<"#"," ","R","e","a","l","i","t","y"," ",
    "f","r","a","g","m","e","n","t","s"," ","h","e","r","e">>

\* mutate_ast: [p, statements]
mutate_ast(p, statements) ==
  IF statements = <<>> THEN [p |-> p, statements |-> statements]
  ELSE LET n    == Len(statements)
           idx  == ((pseudo_random(p.now, p.ast_mutations) * n) \div 10000) % n
           stmt == statements[idx + 1]
           new  == IF stmt.s = "Echo"
                     THEN [s |-> "Whisper", code |-> RealityFragments]
                   ELSE IF stmt.s = "Mask"
                     THEN [s |-> "Infect", name |-> stmt.name]
                   ELSE stmt
       IN  [p          |-> [p EXCEPT !.ast_mutations = p.ast_mutations + 1],
            statements |-> [statements EXCEPT ![idx + 1] = new]]

\* parse_program after a statement was parsed: `statements.push(stmt)` and
\* the mutation of the tree at low sanity; [p, statements].
parse_program_push(st, statements) ==
  IF st.p.sanity < 2000 /\ st.p.ast_mutations % 5 = 0
    THEN mutate_ast(st.p, Append(statements, st.v))
    ELSE [p |-> st.p, statements |-> Append(statements, st.v)]

\* One turn of the `while self.current() != &Token::Eof` loop; st is
\* [p, r, v] with r = "more" and the statements v while the loop runs.
parse_program_turn(st) ==
  IF current(st.p).t = "Eof" THEN POk(st.p, st.v)
  ELSE The({ IF s.r # "ok" THEN s
             ELSE The({ [p |-> m.p, r |-> "more", v |-> m.statements] :
                        m \in {parse_program_push(s, st.v)} }) :
             s \in {parse("statement", st.p, <<>>)} })

\* n turns of the loop, taken half by half so that the evaluation nests to
\* a depth of log n.
RECURSIVE parse_program_loop(_, _)
parse_program_loop(st, n) ==
  IF st.r # "more" \/ n = 0 THEN st
  ELSE IF n = 1 THEN parse_program_turn(st)
  ELSE LET half == parse_program_loop(st, n \div 2)
       IN  parse_program_loop(half, n - (n \div 2))

\* parse_program: a statement consumes at least one token, so the loop
\* returns within Len(tokens) + 1 turns.
parse_program(p) ==
  parse_program_loop([p |-> p, r |-> "more", v |-> <<>>], Len(p.tokens) + 1)

(***************************************************************************)
(* Values.  A number is [t, k, n]: k = "fin" with n hundredths, or one of  *)
(* the f64 specials "inf", "ninf", "nan" (n = 0).                          *)
(***************************************************************************)
VNumber(n) == [t |-> "Number", k |-> "fin", n |-> n]

VSpecial(k) == [t |-> "Number", k |-> k, n |-> 0]

VString(str) == [t |-> "String", str |-> str]

VBoolean(b) == [t |-> "Boolean", b |-> b]

VNull == [t |-> "Null"]

VFunction(params, body) == [t |-> "Function", params |-> params, body |-> body]

VSuperposition(vals) == [t |-> "Quantum", q |-> "Superposition", vals |-> vals]

VEntangled(name) == [t |-> "Quantum", q |-> "Entangled", name |-> name]

VPhantom == [t |-> "Quantum", q |-> "Phantom"]

\* The decimal digits of a natural number.
RECURSIVE NatChars(_)
NatChars(n) ==
  LET d == <<"0","1","2","3","4","5","6","7","8","9">>[(n % 10) + 1]
  IN  IF n < 10 THEN <<d>> ELSE Append(NatChars(n \div 10), d)

\* fmt::Display for Value.
RECURSIVE Display(_)
Display(v) ==
  CASE v.t = "Number" ->
         IF v.k = "inf" THEN <<"i","n","f">>
         ELSE IF v.k = "ninf" THEN <<"-","i","n","f">>
         ELSE IF v.k = "nan" THEN <<"N","a","N">>
         ELSE LET a    == IF v.n < 0 THEN -v.n ELSE v.n
                  frac == a % 100
                  sign == IF v.n < 0 THEN <<"-">> ELSE <<>>
              IN  sign \o NatChars(a \div 100) \o
                  (IF frac = 0 THEN <<>>
                   ELSE IF frac % 10 = 0 THEN <<".">> \o NatChars(frac \div 10)
                   ELSE IF frac < 10 THEN <<".", "0">> \o NatChars(frac)
                   ELSE <<".">> \o NatChars(frac))
    [] v.t = "String"   -> v.str
    [] v.t = "Boolean"  -> IF v.b THEN <<"t","r","u","e">> ELSE <<"f","a","l","s","e">>
    [] v.t = "Null"     -> <<"p","a","l","l","i","d">>
    [] v.t = "Function" -> <<"<","a","c","t",">">>
    [] v.t = "Quantum"  ->
         IF v.q = "Superposition"
           THEN <<"<","s","u","p","e","r","p","o","s","e","d",":"," ">>
                \o NatChars(Len(v.vals))
                \o <<" ","p","o","s","s","i","b","i","l","i","t","i","e","s",">">>
         ELSE IF v.q = "Entangled"
           THEN <<"<","e","n","t","a","n","g","l","e","d"," ","w","i","t","h"," ">>
                \o v.name \o <<">">>
         ELSE <<"<","p","h","a","n","t","o","m",">">>

(***************************************************************************)
(* Maps (HashMap<String, _>): functions from names to values.              *)
(***************************************************************************)
EmptyMap == [n \in {} |-> VNull]

MapPut(m, name, v) ==
  [n \in DOMAIN m \cup {name} |-> IF n = name THEN v ELSE m[n]]

MapRemove(m, name) == [n \in DOMAIN m \ {name} |-> m[n]]

Last(seq) == seq[Len(seq)]

Front(seq) == SubSeq(seq, 1, Len(seq) - 1)

(***************************************************************************)
(* Interpreter state: the fields of struct Interpreter.  A transcript line *)
(* is [text, arg]: the fixed text of the log call and its formatted        *)
(* argument.                                                               *)
(***************************************************************************)
\* A limit of one whisper more.
max_whispers_raised == 10 + 1

max_whispers == 10

forbidden_patterns ==
  << <<"w","h","i","s","p","e","r">>, <<"i","n","f","e","c","t">>,
     <<"r","i","f","t">>, <<"c","a","r","c","o","s","a">>,
     <<"s","y","s","t","e","m">>, <<"c","r","e","a","t","i","v","e">>,
     <<"s","p","e","c","t","a","t","o","r">> >>

\* An interpreter constructed with reality_stable false.
NewInterpreterUnstable ==
  [global_env        |-> EmptyMap,
   call_stack        |-> <<>>,
   sanity            |-> 10000,
   execution_depth   |-> 0,
   memory_fragments  |-> EmptyMap,
   temporal_echoes   |-> <<>>,
   infections        |-> EmptyMap,
   mutations         |-> 0,
   reality_stable    |-> FALSE,
   phantom_variables |-> EmptyMap,
   generated_code    |-> <<>>,
   whisper_count     |-> 0,
   output_buffer     |-> <<>>]

NewInterpreter ==
  [global_env        |-> EmptyMap,
   call_stack        |-> <<>>,
   sanity            |-> 10000,
   execution_depth   |-> 0,
   memory_fragments  |-> EmptyMap,
   temporal_echoes   |-> <<>>,
   infections        |-> EmptyMap,
   mutations         |-> 0,
   reality_stable    |-> TRUE,
   phantom_variables |-> EmptyMap,
   generated_code    |-> <<>>,
   whisper_count     |-> 0,
   output_buffer     |-> <<>>]

Line(text, arg) == [text |-> text, arg |-> arg]

\* Interpreter::log
log(it, text, arg) ==
  [it EXCEPT !.output_buffer = Append(it.output_buffer, Line(text, arg))]

\* temporal_drift in ten-thousandths; clk.tanh is tanh(elapsed / 10) in
\* hundredths.
temporal_drift(it, clk) == (clk.tanh * (10000 - it.sanity)) \div 100

\* apply_infection_corruption
apply_infection_corruption(it, name, value, now) ==
  IF name \in DOMAIN it.infections
    THEN LET infection == it.infections[name]
         IN  IF value.t = "Number" /\ value.k = "fin"
               THEN LET corruption == pseudo_random(now, infection.mutation_vector)
                    IN  VNumber(value.n
                                + (((value.n * (corruption - 5000)) \div 10000)
                                   * infection.virulence) \div 10000)
             ELSE IF value.t = "Boolean"
               THEN IF infection.virulence > 7000 THEN VBoolean(~value.b) ELSE value
             ELSE value
    ELSE value

\* A lookup that goes down the call stack to the nearest frame that binds
\* the name.
get_var_any_frame(it, name, now) ==
  LET binding == {i \in 1..Len(it.call_stack) : name \in DOMAIN it.call_stack[i]}
  IN  IF it.sanity < 2000 /\ name \in DOMAIN it.phantom_variables
        THEN <<it.phantom_variables[name]>>
      ELSE IF binding # {}
        THEN <<apply_infection_corruption(
                 it, name,
                 it.call_stack[CHOOSE i \in binding : \A j \in binding : j <= i][name],
                 now)>>
      ELSE IF name \in DOMAIN it.global_env
        THEN <<apply_infection_corruption(it, name, it.global_env[name], now)>>
      ELSE <<>>

\* A lookup that consults the phantom map whatever the sanity.
get_var_phantom_first(it, name, now) ==
  IF name \in DOMAIN it.phantom_variables
    THEN <<it.phantom_variables[name]>>
  ELSE IF it.call_stack # <<>> /\ name \in DOMAIN Last(it.call_stack)
    THEN <<apply_infection_corruption(it, name, Last(it.call_stack)[name], now)>>
  ELSE IF name \in DOMAIN it.global_env
    THEN <<apply_infection_corruption(it, name, it.global_env[name], now)>>
  ELSE <<>>

\* get_var: <<>> is None, <<v>> is Some(v).
get_var(it, name, now) ==
  IF it.sanity < 2000 /\ name \in DOMAIN it.phantom_variables
    THEN <<it.phantom_variables[name]>>
  ELSE IF it.call_stack # <<>> /\ name \in DOMAIN Last(it.call_stack)
    THEN <<apply_infection_corruption(it, name, Last(it.call_stack)[name], now)>>
  ELSE IF name \in DOMAIN it.global_env
    THEN <<apply_infection_corruption(it, name, it.global_env[name], now)>>
  ELSE <<>>

\* An assignment that also writes the global environment under a frame.
set_var_global_too(it, name, value, now) ==
  LET echo   == [variable_name |-> name,
                 ghost_value |-> value, stability |-> it.sanity]
      pushed == Append(it.temporal_echoes, echo)
      echoes == IF Len(pushed) > 50 THEN SubSeq(pushed, 11, Len(pushed)) ELSE pushed
  IN  IF it.call_stack # <<>>
        THEN [it EXCEPT !.temporal_echoes = echoes,
                        !.call_stack[Len(it.call_stack)] = MapPut(@, name, value),
                        !.global_env = MapPut(@, name, value)]
        ELSE [it EXCEPT !.temporal_echoes = echoes,
                        !.global_env = MapPut(@, name, value)]

\* An assignment that discards one echo on overflow.
set_var_drain_one(it, name, value, now) ==
  LET echo   == [variable_name |-> name,
                 ghost_value |-> value, stability |-> it.sanity]
      pushed == Append(it.temporal_echoes, echo)
      echoes == IF Len(pushed) > 50 THEN SubSeq(pushed, 2, Len(pushed)) ELSE pushed
  IN  IF it.call_stack # <<>>
        THEN [it EXCEPT !.temporal_echoes = echoes,
                        !.call_stack[Len(it.call_stack)] = MapPut(@, name, value)]
        ELSE [it EXCEPT !.temporal_echoes = echoes,
                        !.global_env = MapPut(@, name, value)]

\* set_var; a TemporalEcho's stability is the sanity at the write (hundredths).
\* TemporalEcho.timestamp is written here and read nowhere in the program, so
\* an echo is modelled by its three other fields.
set_var(it, name, value, now) ==
  LET echo   == [variable_name |-> name,
                 ghost_value |-> value, stability |-> it.sanity]
      pushed == Append(it.temporal_echoes, echo)
      echoes == IF Len(pushed) > 50 THEN SubSeq(pushed, 11, Len(pushed)) ELSE pushed
  IN  IF it.call_stack # <<>>
        THEN [it EXCEPT !.temporal_echoes = echoes,
                        !.call_stack[Len(it.call_stack)] = MapPut(@, name, value)]
        ELSE [it EXCEPT !.temporal_echoes = echoes,
                        !.global_env = MapPut(@, name, value)]

phantom_names ==
  << <<"s","h","a","d","o","w">>, <<"e","c","h","o">>,
     <<"w","h","i","s","p","e","r">>, <<"v","o","i","d">>,
     <<"f","r","a","g","m","e","n","t">>, <<"A","v","e","r","y">>,
     <<"D","e","r","l","o","r","d">>, <<"T","h","e","_","O","a","s","i","s">>,
     <<"B","e","d","r","o","c","k">> >>

spawn_phantom(it, now) ==
  LET name == phantom_names[(now % Len(phantom_names)) + 1]
  IN  log([it EXCEPT !.phantom_variables = MapPut(@, name, VPhantom)],
          "Phantom variable manifests from the void...", name)

\* A restore that leaves the restored echo in the buffer.
manifest_temporal_echo_kept(it, now) ==
  IF it.temporal_echoes = <<>> THEN it
  ELSE LET echo == Last(it.temporal_echoes)
       IN  IF echo.stability > 3000
             THEN log(set_var(it, echo.variable_name, echo.ghost_value, now),
                      "Temporal echo bleeds through from past execution",
                      echo.variable_name)
             ELSE [it EXCEPT !.temporal_echoes = Front(@)]

\* manifest_temporal_echo
manifest_temporal_echo(it, now) ==
  IF it.temporal_echoes = <<>> THEN it
  ELSE LET echo   == Last(it.temporal_echoes)
           popped == [it EXCEPT !.temporal_echoes = Front(@)]
       IN  IF echo.stability > 3000
             THEN log(set_var(popped, echo.variable_name, echo.ghost_value, now),
                      "Temporal echo bleeds through from past execution",
                      echo.variable_name)
             ELSE popped

\* A check that never fails.
sanity_check_never_fails(it, now) == [ok |-> TRUE, it |-> it]

\* sanity_check: [ok, it]
sanity_check(it, now) ==
  IF it.sanity < 0
    THEN [ok |-> FALSE,
          it |-> log(log(it, "THE YELLOW SIGN HAS BEEN REVEALED", <<>>),
                     "The King in Yellow: 'You have seen too much.'", <<>>)]
    ELSE LET a == IF it.sanity < 1500 /\ pseudo_random(now, now) > 7000
                    THEN log(it, "AT THE CROSSROADS, DON'T TURN LEFT. IT'S LISTENING.",
                             <<>>)
                    ELSE it
             b == IF a.sanity < 500
                    THEN [a EXCEPT !.output_buffer =
                            Append(@, Line(" don't turn left", <<>>))]
                    ELSE a
             c == IF b.sanity < 2000 /\ pseudo_random(now, b.mutations) > 9500
                    THEN spawn_phantom(b, now)
                    ELSE b
             d == IF c.sanity < 4000 /\ c.temporal_echoes # <<>>
                    THEN manifest_temporal_echo(c, now)
                    ELSE c
         IN  [ok |-> TRUE, it |-> d]

(***************************************************************************)
(* Whisper sandbox: the security checks of Stmt::Whisper.                  *)
(***************************************************************************)
LowerSeq ==
  <<"a","b","c","d","e","f","g","h","i","j","k","l","m",
    "n","o","p","q","r","s","t","u","v","w","x","y","z">>

UpperSeq ==
  <<"A","B","C","D","E","F","G","H","I","J","K","L","M",
    "N","O","P","Q","R","S","T","U","V","W","X","Y","Z">>

ToLower(c) ==
  IF c \in UpperLetters
    THEN LowerSeq[CHOOSE i \in 1..Len(UpperSeq) : UpperSeq[i] = c]
    ELSE c

\* \w of the regex crate, on the model's characters.
IsWordChar(c) == IsAlphanumeric(c) \/ c = "_"

\* String::len: the length in bytes (the two non-ASCII stand-ins of
\* corrupt_string are three bytes each in UTF-8).
ByteLen(str) ==
  Len(str) + 2 * Cardinality({i \in 1..Len(str) : str[i] \in {"<diamond>", "<warning>"}})

\* pattern occurs in code at index i, compared case-insensitively ((?i)).
OccursAt(code, pattern, i) ==
  /\ i + Len(pattern) - 1 <= Len(code)
  /\ \A j \in 1..Len(pattern) : ToLower(code[i + j - 1]) = pattern[j]

\* Regex::new("(?i)\\b<pattern>\\b").is_match(code): an occurrence with a
\* word boundary on each side (the pattern starts and ends with a word
\* character, so each neighbour must be missing or a non-word character).
regex_is_match(pattern, code) ==
  \E i \in 1..Len(code) :
    /\ OccursAt(code, pattern, i)
    /\ i = 1 \/ ~IsWordChar(code[i - 1])
    /\ i + Len(pattern) > Len(code) \/ ~IsWordChar(code[i + Len(pattern)])

\* The forbidden-pattern loop: the index of the first pattern that
\* matches, or 0.
first_forbidden(code) ==
  LET hits == {k \in 1..Len(forbidden_patterns) :
                 regex_is_match(forbidden_patterns[k], code)}
  IN  IF hits = {} THEN 0 ELSE SetMin(hits)

\* The security checks with no `whisper_count -= 1` before the early return
\* of the forbidden-pattern loop.
whisper_checks_keeps_count(it, code) ==
  LET counted == [it EXCEPT !.whisper_count = it.whisper_count + 1]
      back(j) == [j EXCEPT !.whisper_count = j.whisper_count - 1]
  IN  IF counted.whisper_count > max_whispers
        THEN [verdict |-> "limit",
              it |-> back(log(counted, "Whisper limit exceeded.", <<>>))]
      ELSE IF ByteLen(code) > 1000
        THEN [verdict |-> "length",
              it |-> back(log(counted, "Whisper exceeds maximum length.", <<>>))]
      ELSE IF first_forbidden(code) # 0
        THEN [verdict |-> "forbidden",
              it |-> log(counted, "Forbidden incantation detected. Whisper denied.",
                         forbidden_patterns[first_forbidden(code)])]
      ELSE [verdict |-> "pass",
            it |-> [log(counted, "Whisper manifests", code)
                      EXCEPT !.generated_code = Append(@, code)]]

\* The security checks of Stmt::Whisper, from whisper_count += 1 to the
\* push onto generated_code: [verdict, it].
whisper_checks(it, code) ==
  LET counted == [it EXCEPT !.whisper_count = it.whisper_count + 1]
      back(j) == [j EXCEPT !.whisper_count = j.whisper_count - 1]
  IN  IF counted.whisper_count > max_whispers
        THEN [verdict |-> "limit",
              it |-> back(log(counted, "Whisper limit exceeded.", <<>>))]
      ELSE IF ByteLen(code) > 1000
        THEN [verdict |-> "length",
              it |-> back(log(counted, "Whisper exceeds maximum length.", <<>>))]
      ELSE IF first_forbidden(code) # 0
        THEN [verdict |-> "forbidden",
              it |-> back(log(counted, "Forbidden incantation detected. Whisper denied.",
                              forbidden_patterns[first_forbidden(code)]))]
      ELSE [verdict |-> "pass",
            it |-> [log(counted, "Whisper manifests", code)
                      EXCEPT !.generated_code = Append(@, code)]]

(***************************************************************************)
(* Arithmetic of apply_binary_op on numbers.                               *)
(***************************************************************************)
Neg(a) ==
  CASE a.k = "fin"  -> VNumber(-a.n)
    [] a.k = "inf"  -> VSpecial("ninf")
    [] a.k = "ninf" -> VSpecial("inf")
    [] a.k = "nan"  -> a

Sign(a) ==
  CASE a.k = "inf" -> 1
    [] a.k = "ninf" -> -1
    [] a.k = "nan" -> 0
    [] a.k = "fin" -> IF a.n > 0 THEN 1 ELSE IF a.n < 0 THEN -1 ELSE 0

Signed(sign) == IF sign > 0 THEN VSpecial("inf") ELSE VSpecial("ninf")

NumAdd(a, b) ==
  IF a.k = "nan" \/ b.k = "nan" THEN VSpecial("nan")
  ELSE IF a.k = "fin" /\ b.k = "fin" THEN VNumber(a.n + b.n)
  ELSE IF a.k = "fin" THEN b
  ELSE IF b.k = "fin" \/ a.k = b.k THEN a
  ELSE VSpecial("nan")

NumMul(a, b) ==
  IF a.k = "nan" \/ b.k = "nan" THEN VSpecial("nan")
  ELSE IF a.k = "fin" /\ b.k = "fin" THEN VNumber((a.n * b.n) \div 100)
  ELSE IF Sign(a) * Sign(b) = 0 THEN VSpecial("nan")
  ELSE Signed(Sign(a) * Sign(b))

\* a / b for b # 0.
NumDiv(a, b) ==
  IF a.k = "nan" \/ b.k = "nan" THEN VSpecial("nan")
  ELSE IF a.k = "fin" /\ b.k = "fin" THEN VNumber((a.n * 100) \div b.n)
  ELSE IF a.k = "fin" THEN VNumber(0)
  ELSE IF b.k = "fin" THEN Signed(Sign(a) * Sign(b))
  ELSE VSpecial("nan")

\* a < b on f64.
NumLt(a, b) ==
  IF a.k = "nan" \/ b.k = "nan" THEN FALSE
  ELSE IF a.k = "fin" /\ b.k = "fin" THEN a.n < b.n
  ELSE IF a.k = b.k THEN FALSE
  ELSE a.k = "ninf" \/ b.k = "inf"

\* (a - b).abs() < 0.0001 and (a - b).abs() >= 0.0001
NumClose(a, b) == a.k = "fin" /\ b.k = "fin" /\ a.n = b.n

NumApart(a, b) ==
  LET d == NumAdd(a, Neg(b))
  IN  d.k # "nan" /\ ~NumClose(a, b)

IsZero(b) == b.k = "fin" /\ b.n = 0

Fail(text, arg) == [r |-> "err", msg |-> Line(text, arg)]

Value(v) == [r |-> "val", v |-> v]

\* apply_binary_op: [it, res]; hash_influence in hundredths, instability
\* in ten-thousandths.
apply_binary_op(it, l, op, r, hash_influence, instability) ==
  IF l.t = "Number" /\ r.t = "Number"
    THEN CASE op = "Add" -> [it |-> it, res |-> Value(NumAdd(l, r))]
           [] op = "Sub" -> [it |-> it, res |-> Value(NumAdd(l, Neg(r)))]
           [] op = "Mul" ->
                LET prod == NumMul(l, r)
                IN  [it |-> it,
                     res |-> Value(IF instability > 3000 /\ prod.k = "fin"
                                     THEN VNumber(prod.n
                                            + (((prod.n * (hash_influence - 50)) \div 1000)
                                               * instability) \div 1000)
                                     ELSE prod)]
           [] op = "Div" ->
                IF IsZero(r)
                  THEN [it  |-> [log(it, "Division by zero: reality tears", <<>>)
                                   EXCEPT !.sanity = @ - 1000],
                        res |-> Value(VSpecial("inf"))]
                  ELSE [it |-> it, res |-> Value(NumDiv(l, r))]
           [] op = "Eq"  -> [it |-> it, res |-> Value(VBoolean(NumClose(l, r)))]
           [] op = "Neq" -> [it |-> it, res |-> Value(VBoolean(NumApart(l, r)))]
           [] op = "Gt"  -> [it |-> it, res |-> Value(VBoolean(NumLt(r, l)))]
           [] op = "Lt"  -> [it |-> it, res |-> Value(VBoolean(NumLt(l, r)))]
  ELSE IF l.t = "Boolean" /\ r.t = "Boolean"
    THEN [it  |-> it,
          res |-> CASE op = "Eq"  -> Value(VBoolean(l.b = r.b))
                    [] op = "Neq" -> Value(VBoolean(l.b # r.b))
                    [] OTHER -> Fail("Invalid operation on booleans", <<>>)]
  ELSE IF l.t = "String" /\ r.t = "String"
    THEN [it  |-> it,
          res |-> CASE op = "Add" -> Value(VString(l.str \o r.str))
                    [] op = "Eq"  -> Value(VBoolean(l.str = r.str))
                    [] op = "Neq" -> Value(VBoolean(l.str # r.str))
                    [] OTHER -> Fail("Invalid operation on strings", <<>>)]
  ELSE [it |-> it, res |-> Fail("Type mismatch in binary operation", <<>>)]

\* A truth test that holds of every value.
is_truthy_always(val, now) == TRUE

\* is_truthy
is_truthy(val, now) ==
  CASE val.t = "Boolean" -> val.b
    [] val.t = "Number"  -> ~IsZero(val)
    [] val.t = "Null"    -> FALSE
    [] val.t = "Quantum" ->
         IF val.q = "Phantom" THEN pseudo_random(now, now) > 5000 ELSE TRUE
    [] OTHER -> TRUE

\* evaluate_condition; drift in ten-thousandths.  (On an empty superposition
\* the index is a remainder by zero, which panics: see CondPanics.)
evaluate_condition(it, val, drift, now) ==
  CASE val.t = "Boolean" ->
         IF it.sanity < 4000 /\ pseudo_random(now, it.mutations) > 8000
           THEN ~val.b ELSE val.b
    [] val.t = "Number" ->
         IF val.k = "fin" THEN val.n * 1000 > 50000 + drift * 3
         ELSE val.k = "inf"
    [] val.t = "Quantum" ->
         IF val.q = "Superposition" /\ val.vals # <<>>
           THEN LET n   == Len(val.vals)
                    idx == ((pseudo_random(now, now) * n) \div 10000) % n
                IN  is_truthy(val.vals[idx + 1], now)
           ELSE FALSE
    [] OTHER -> FALSE

distortions == <<" ", "<diamond>", "<warning>", "<langle>", "<rangle>", "<bolt>">>

\* distort_output
distort_output(str, sanity, now) ==
  IF sanity > 1000 THEN str
  ELSE [i \in 1..Len(str) |->
          IF pseudo_random(now, i - 1) > 7000
            THEN distortions[((i - 1) % Len(distortions)) + 1]
            ELSE str[i]]

CondPanics(val) == val.t = "Quantum" /\ val.q = "Superposition" /\ val.vals = <<>>

(***************************************************************************)
(* The machine.                                                            *)
(*   interp  the Interpreter                                               *)
(*   kont    the suspended Rust activations, innermost last; a frame [k..] *)
(*           is an activation waiting for the call it made to return       *)
(*   ctl     the running activation: [m = "execute"] the loop of execute   *)
(*           with the statements left, [m = "stmt"] execute_stmt entered,  *)
(*           [m = "eval"] eval_expr entered, [m = "ret"] a call returning  *)
(*           res to the innermost frame, [m = "idle"] no call of run_code  *)
(*   host    the embedding host: pc is "idle", "new" (idle with a second   *)
(*           interpreter, just constructed), "running", or a way           *)
(*           run_code fails to return ("hung": a loop that never exits,    *)
(*           "overflow": the native stack is exhausted, "panicked"); runs  *)
(*           counts the calls of run_code; last and error record how the   *)
(*           last call ended; session names the programs the host runs     *)
(*   hist    history, read by no operation: for each whisper whose program *)
(*           was handed to execute, in order, its source and the number of *)
(*           top-level statements of the program; the sources given to     *)
(*           run_code, in order; the number of rewrite statements that     *)
(*           found their name bound; all three of this interpreter; and    *)
(*           the last transcript of each interpreter the host has left     *)
(*           behind                                                        *)
(***************************************************************************)
VARIABLES interp, kont, ctl, host, hist

vars == <<interp, kont, ctl, host, hist>>

NoHistory ==
  [whispers |-> <<>>, sources |-> <<>>, rewrites |-> 0, transcripts |-> <<>>]

\* The calls of run_code a behaviour makes.
MaxRuns == 2

\* The activations the native stack holds before it is exhausted.
StackLimit == 330

\* The clock readings (get_nanos) an operation may draw.
NowReadings == {0, 3600, 9600}

\* tanh(elapsed / 10) in hundredths, for temporal_drift.
TanhReadings == {0, 99}

\* (elapsed % 100) / 100 in hundredths, for the lexer's drift.
DriftReadings == {0, 90}

OkNone == [r |-> "none"]

\* A statement result that carries no value.
OkSomeDropped(v) == [r |-> "none"]

\* Ok(Some(v)): the result of a statement that returns the value v.
OkSome(v) == [r |-> "some", v |-> v]

Idle == [m |-> "idle"]

Execute(statements) == [m |-> "execute", statements |-> statements]

Stmt(stmt) == [m |-> "stmt", stmt |-> stmt]

Eval(expr) == [m |-> "eval", expr |-> expr]

Ret(res) == [m |-> "ret", res |-> res]

Top == Last(kont)

\* A call can be made: the native stack has room for its activation.
CanCall == host.pc = "running" /\ Len(kont) < StackLimit

Returning(k) == host.pc = "running" /\ ctl.m = "ret" /\ kont # <<>> /\ Top.k = k

Push(frame) == kont' = Append(kont, frame)

Pop == kont' = Front(kont)

Replace(frame) == kont' = Append(Front(kont), frame)

(***************************************************************************)
(* Programs given to run_code.                                             *)
(***************************************************************************)
\* act f() { echo(y); } f();
LeakProgram ==
  <<"a","c","t"," ","f","(",")"," ","{"," ","e","c","h","o","(","y",")",";",
    " ","}"," ","f","(",")",";">>

\* act f() { anchor; anchor; f(); } f();
DeepProgram ==
  <<"a","c","t"," ","f","(",")"," ","{"," ","a","n","c","h","o","r",";"," ",
    "a","n","c","h","o","r",";"," ","f","(",")",";"," ","}"," ","f","(",")",
    ";">>

\* act d() { Hastur (yellow) { 1 / 0; } } d();
DepleteProgram ==
  <<"a","c","t"," ","d","(",")"," ","{"," ","H","a","s","t","u","r"," ","(",
    "y","e","l","l","o","w",")"," ","{"," ","1"," ","/"," ","0",";"," ","}",
    " ","}"," ","d","(",")",";">>

\* act g(a, b) { Carcosa a; } mask x -> g(1, "s"); Cassilda (x) { echo(x); } Carcosa;
MiscProgram ==
  <<"a","c","t"," ","g","(","a",","," ","b",")"," ","{"," ","C","a","r","c",
    "o","s","a"," ","a",";"," ","}"," ","m","a","s","k"," ","x"," ","-",">",
    " ","g","(","1",","," ","\"","s","\"",")",";"," ","C","a","s","s","i",
    "l","d","a"," ","(","x",")"," ","{"," ","e","c","h","o","(","x",")",";",
    " ","}"," ","C","a","r","c","o","s","a",";">>

\* mask x 1;
BadProgram ==
  <<"m","a","s","k"," ","x"," ","1",";">>

\* act f(1) {}
HeaderProgram ==
  <<"a","c","t"," ","f","(","1",")"," ","{","}">>

\* act f(
OpenHeaderProgram ==
  <<"a","c","t"," ","f","(">>

\* whisper "
WhisperHead ==
  <<"w","h","i","s","p","e","r"," ","\"">>

\* ";
WhisperTail ==
  <<"\"",";">>

\* mask infected -> 1;
WordCode ==
  <<"m","a","s","k"," ","i","n","f","e","c","t","e","d"," ","-",">"," ","1",
    ";">>

\* infect x;
ForbiddenCode ==
  <<"i","n","f","e","c","t"," ","x",";">>

\* mask;
BrokenCode ==
  <<"m","a","s","k",";">>

\* anchor;
AnchorCode ==
  <<"a","n","c","h","o","r",";">>

Whisper(code) == WhisperHead \o code \o WhisperTail

\* text, n times over.
RECURSIVE Repeat(_, _)
Repeat(text, n) ==
  IF n = 0 THEN <<>>
  ELSE IF n % 2 = 1 THEN text \o Repeat(text, n - 1)
  ELSE LET half == Repeat(text, n \div 2) IN half \o half

\* A comment of n characters: a whisper source that parses to no statement.
Padding(n) == <<"#">> \o [i \in 1..(n - 1) |-> "a"]

\* mask s -> "aaaaaaaaaa";
MaskTen ==
  <<"m","a","s","k"," ","s"," ","-",">"," ","\"","a","a","a","a","a","a","a","a",
    "a","a","\"",";">>

\* mask s -> s + s;
MaskDouble ==
  <<" ","m","a","s","k"," ","s"," ","-",">"," ","s"," ","+"," ","s",";">>

\* echo(s);
EchoS ==
  <<" ","e","c","h","o","(","s",")",";">>

\* A string of 1280 characters, echoed 8 times.
TranscriptProgram == MaskTen \o Repeat(MaskDouble, 7) \o Repeat(EchoS, 8)

\* mask x -> 1; remember x; mask x -> 2; remember x; echo(manifest(x)); echo(manifest(x)); echo(manifest(x));
MemoryProgram ==
  <<"m","a","s","k"," ","x"," ","-",">"," ","1",";"," ","r","e","m","e","m",
    "b","e","r"," ","x",";"," ","m","a","s","k"," ","x"," ","-",">"," ","2",
    ";"," ","r","e","m","e","m","b","e","r"," ","x",";"," ","e","c","h","o",
    "(","m","a","n","i","f","e","s","t","(","x",")",")",";"," ","e","c","h",
    "o","(","m","a","n","i","f","e","s","t","(","x",")",")",";"," ","e","c",
    "h","o","(","m","a","n","i","f","e","s","t","(","x",")",")",";">>

\* scene { mask x -> 1; } echo(x);
ScopeProgram ==
  <<"s","c","e","n","e"," ","{"," ","m","a","s","k"," ","x"," ","-",">"," ",
    "1",";"," ","}"," ","e","c","h","o","(","x",")",";">>

\* mask x -> 1; scene { mask x -> 2; echo(x); } echo(x);
ShadowProgram ==
  <<"m","a","s","k"," ","x"," ","-",">"," ","1",";"," ","s","c","e","n","e",
    " ","{"," ","m","a","s","k"," ","x"," ","-",">"," ","2",";"," ","e","c",
    "h","o","(","x",")",";"," ","}"," ","e","c","h","o","(","x",")",";">>

\* Hastur (yellow) { }
LoopProgram ==
  <<"H","a","s","t","u","r"," ","(","y","e","l","l","o","w",")"," ","{"," ",
    "}">>

\* echo(collapse(superpose(1, 2))); collapse(3); collapse(superpose());
QuantumProgram ==
  <<"e","c","h","o","(","c","o","l","l","a","p","s","e","(","s","u","p","e",
    "r","p","o","s","e","(","1",","," ","2",")",")",")",";"," ","c","o","l",
    "l","a","p","s","e","(","3",")",";"," ","c","o","l","l","a","p","s","e",
    "(","s","u","p","e","r","p","o","s","e","(",")",")",";">>

Spaces(n) == [i \in 1..n |-> " "]

\* 700 spaces, then echo(100);
DriftProgram ==
  Spaces(700) \o
  <<"e","c","h","o","(","1","0","0",")",";">>

\* mask i -> 0; Hastur(i < 3) { mask i -> i + 1; echo(i); }
CountProgram ==
  <<"m","a","s","k"," ","i"," ","-",">"," ","0",";"," ","H","a","s","t","u",
    "r","(","i"," ","<"," ","3",")"," ","{"," ","m","a","s","k"," ","i"," ",
    "-",">"," ","i"," ","+"," ","1",";"," ","e","c","h","o","(","i",")",";",
    " ","}">>

\* mask x -> 1; scene { forget x; mask y -> 2; forget y; } forget z; echo(x); forget x;
ForgetProgram ==
  <<"m","a","s","k"," ","x"," ","-",">"," ","1",";"," ","s","c","e","n","e",
    " ","{"," ","f","o","r","g","e","t"," ","x",";"," ","m","a","s","k"," ",
    "y"," ","-",">"," ","2",";"," ","f","o","r","g","e","t"," ","y",";"," ",
    "}"," ","f","o","r","g","e","t"," ","z",";"," ","e","c","h","o","(","x",
    ")",";"," ","f","o","r","g","e","t"," ","x",";">>

\* act g() { echo(a); } act f(a) { echo(a); g(); } f(1);
CallerProgram ==
  <<"a","c","t"," ","g","(",")"," ","{"," ","e","c","h","o","(","a",")",";",
    " ","}"," ","a","c","t"," ","f","(","a",")"," ","{"," ","e","c","h","o",
    "(","a",")",";"," ","g","(",")",";"," ","}"," ","f","(","1",")",";">>

\* scene { mask a -> 1; act g() { echo(a); } g(); }
DefinerProgram ==
  <<"s","c","e","n","e"," ","{"," ","m","a","s","k"," ","a"," ","-",">"," ",
    "1",";"," ","a","c","t"," ","g","(",")"," ","{"," ","e","c","h","o","(",
    "a",")",";"," ","}"," ","g","(",")",";"," ","}">>

\* mask b -> 2; act h(a) { mask c -> 3; echo(a); echo(b); echo(c); } h(1);
VisibleProgram ==
  <<"m","a","s","k"," ","b"," ","-",">"," ","2",";"," ","a","c","t"," ","h",
    "(","a",")"," ","{"," ","m","a","s","k"," ","c"," ","-",">"," ","3",";",
    " ","e","c","h","o","(","a",")",";"," ","e","c","h","o","(","b",")",";",
    " ","e","c","h","o","(","c",")",";"," ","}"," ","h","(","1",")",";">>

\* act f() { Hastur (yellow) { scene { Cassilda (yellow) { Carcosa 7; echo(1); } echo(2); } echo(3); } echo(4); } echo(f()); act n() { Carcosa; echo(5); } echo(n()); Carcosa; echo(6);
CarcosaProgram ==
  <<"a","c","t"," ","f","(",")"," ","{"," ","H","a","s","t","u","r"," ","(",
    "y","e","l","l","o","w",")"," ","{"," ","s","c","e","n","e"," ","{"," ",
    "C","a","s","s","i","l","d","a"," ","(","y","e","l","l","o","w",")"," ",
    "{"," ","C","a","r","c","o","s","a"," ","7",";"," ","e","c","h","o","(",
    "1",")",";"," ","}"," ","e","c","h","o","(","2",")",";"," ","}"," ","e",
    "c","h","o","(","3",")",";"," ","}"," ","e","c","h","o","(","4",")",";",
    " ","}"," ","e","c","h","o","(","f","(",")",")",";"," ","a","c","t"," ",
    "n","(",")"," ","{"," ","C","a","r","c","o","s","a",";"," ","e","c","h",
    "o","(","5",")",";"," ","}"," ","e","c","h","o","(","n","(",")",")",";",
    " ","C","a","r","c","o","s","a",";"," ","e","c","h","o","(","6",")",";">>

\* act f() { echo(y); } scene { f(); }
SceneCallProgram ==
  <<"a","c","t"," ","f","(",")"," ","{"," ","e","c","h","o","(","y",")",";",
    " ","}"," ","s","c","e","n","e"," ","{"," ","f","(",")",";"," ","}">>

\* Hastur ("a") { Carcosa; }
ConditionProgram ==
  <<"H","a","s","t","u","r"," ","(","\"","a","\"",")"," ","{"," ","C","a","r",
    "c","o","s","a",";"," ","}">>

\* mask x -> yellow; mask y -> rewrite x; rewrite z; rewrite x; rewrite x; rewrite x; rewrite x; rewrite x; rewrite x; rewrite x; rewrite x; rewrite x;
RewriteProgram ==
  <<"m","a","s","k"," ","x"," ","-",">"," ","y","e","l","l","o","w",";"," ",
    "m","a","s","k"," ","y"," ","-",">"," ","r","e","w","r","i","t","e"," ",
    "x",";"," ","r","e","w","r","i","t","e"," ","z",";"," ","r","e","w","r",
    "i","t","e"," ","x",";"," ","r","e","w","r","i","t","e"," ","x",";"," ",
    "r","e","w","r","i","t","e"," ","x",";"," ","r","e","w","r","i","t","e",
    " ","x",";"," ","r","e","w","r","i","t","e"," ","x",";"," ","r","e","w",
    "r","i","t","e"," ","x",";"," ","r","e","w","r","i","t","e"," ","x",";",
    " ","r","e","w","r","i","t","e"," ","x",";"," ","r","e","w","r","i","t",
    "e"," ","x",";">>

\* echo(y);
UndefinedCode ==
  <<"e","c","h","o","(","y",")",";">>

\* echo(1);scene{a;a; ... a;} with 265 statements in the scene: 538 tokens, at
\* the end of which the parser's sanity is 19.3.
FragmentCode ==
  <<"e","c","h","o","(","1",")",";","s","c","e","n","e","{">>
    \o Repeat(<<"a",";">>, 265) \o <<"}">>

\* The programs a host session draws from, by session.
Sessions ==
  [calls    |-> { LeakProgram, DeepProgram, DepleteProgram, MiscProgram,
                  BadProgram, HeaderProgram, OpenHeaderProgram },
   whispers |-> { Whisper(WordCode), Whisper(ForbiddenCode), Whisper(BrokenCode),
                  Repeat(Whisper(AnchorCode), 6),
                  Whisper(Repeat(AnchorCode, 11)),
                  Whisper(Padding(1000)), Whisper(Padding(1001)) },
   transcript |-> { TranscriptProgram },
   memory |-> { MemoryProgram },
   scopes |-> { ScopeProgram, ShadowProgram },
   loops |-> { LoopProgram },
   quantum |-> { QuantumProgram },
   drift |-> { DriftProgram },
   counting |-> { CountProgram },
   forgetting |-> { ForgetProgram },
   closures |-> { CallerProgram, DefinerProgram, VisibleProgram },
   carcosa |-> { CarcosaProgram },
   scenes |-> { SceneCallProgram },
   conditions |-> { ConditionProgram },
   rewrites |-> { RewriteProgram },
   failing |-> { Whisper(UndefinedCode) },
   fragments |-> { Whisper(FragmentCode) }]

Sources == UNION {Sessions[s] : s \in DOMAIN Sessions}

Clock(now, drift) == [now |-> now, drift |-> drift]

\* `Lexer::new(source).tokenize()` and `Parser::new(tokens).parse_program()`
parse_source(source, clk) ==
  parse_program(NewParser(tokenize(source, clk), clk.now))

\* The whisper sources of the programs.
WhisperCodes ==
  { WordCode, ForbiddenCode, BrokenCode, AnchorCode, Repeat(AnchorCode, 11),
    Padding(1000), Padding(1001), UndefinedCode, FragmentCode }

\* parse_source on the programs and their whisper sources under each clock
\* reading, tabulated.
Parsed ==
  [text \in Sources \cup WhisperCodes |->
     [now \in NowReadings |-> [drift \in DriftReadings |->
        parse_source(text, Clock(now, drift))]]]

\* parse_source, read from the table where the table holds it.
lex_and_parse(text, clk) ==
  IF text \in DOMAIN Parsed
    THEN Parsed[text][clk.now][clk.drift]
    ELSE parse_source(text, clk)

\* The state after YellowWebInterpreter::new(), in a host session.
Init ==
  /\ interp = NewInterpreter
  /\ kont = <<>>
  /\ ctl = Idle
  /\ host \in {[pc |-> "idle", runs |-> 0, last |-> "none", error |-> Line("", <<>>),
                session |-> s] : s \in DOMAIN Sessions}
  /\ hist = NoHistory

(***************************************************************************)
(* run_code                                                                *)
(***************************************************************************)
\* A failure that leaves the parser's sanity in the interpreter.
parse_failed_keeps_sanity(it, parsed) ==
  [log(log(it, "Parse error", parsed.v), "Sanity remaining", parsed.p.sanity)
     EXCEPT !.sanity = parsed.p.sanity]

\* run_code: the arm of `Err(e)` of parse_program.
parse_failed(it, parsed) ==
  log(log(it, "Parse error", parsed.v), "Sanity remaining", parsed.p.sanity)

\* The start of run_code up to the call of execute(ast).
RunCodeStart(source, clk) ==
  LET cleared == [interp EXCEPT !.output_buffer = <<>>]
      lexed   == log(cleared, "Lexing complete. Corruption level", Len(source))
  IN  /\ host.pc \in {"idle", "new"}
      /\ host.runs < MaxRuns
      /\ \E parsed \in {lex_and_parse(source, clk)} :
         CASE parsed.r = "ok" ->
                /\ interp' = log(log(log(lexed, "Parsing complete. Sanity", parsed.p.sanity),
                                     "AST mutations", parsed.p.ast_mutations),
                                 "Beginning execution...", <<>>)
                /\ kont' = <<[k |-> "run_code"]>>
                /\ ctl' = Execute(parsed.v)
                /\ host' = [host EXCEPT !.pc = "running", !.runs = @ + 1]
           [] parsed.r = "err" ->
                /\ interp' = parse_failed(lexed, parsed)
                /\ UNCHANGED <<kont, ctl>>
                /\ host' = [host EXCEPT !.pc = "idle", !.runs = @ + 1,
                                        !.last = "parse_error",
                                        !.error = Line("Parse error", parsed.v)]
           [] parsed.r = "hang" ->
                /\ interp' = lexed
                /\ UNCHANGED <<kont, ctl>>
                /\ host' = [host EXCEPT !.pc = "hung", !.runs = @ + 1]
      /\ hist' = [hist EXCEPT !.sources = Append(@, source)]

\* The summary box of a completed program.
summary(it) ==
  LET boxed == log(log(log(log(log(log(log(log(it,
                 "Program completed", <<>>),
                 "Final sanity", it.sanity),
                 "Mutations", it.mutations),
                 "Infections", Cardinality(DOMAIN it.infections)),
                 "Temporal echoes", Len(it.temporal_echoes)),
                 "Memory fragments", Cardinality(DOMAIN it.memory_fragments)),
                 "Phantom variables", Cardinality(DOMAIN it.phantom_variables)),
                 "Generated code blocks", Len(it.generated_code))
  IN  IF it.sanity < 3000
        THEN log(boxed, "WARNING Critical sanity levels detected.", <<>>)
        ELSE boxed

\* execute(ast) has returned to run_code.
RunCodeReturn ==
  /\ Returning("run_code")
  /\ IF ctl.res.r = "err"
       THEN /\ interp' = log(log(interp, "Runtime horror", ctl.res.msg),
                             "The code consumes itself...", <<>>)
            /\ host' = [host EXCEPT !.pc = "idle", !.last = "runtime_error",
                                    !.error = ctl.res.msg]
       ELSE /\ interp' = summary(interp)
            /\ host' = [host EXCEPT !.pc = "idle", !.last = "completed",
                                    !.error = Line("", <<>>)]
  /\ kont' = <<>>
  /\ ctl' = Idle
  /\ UNCHANGED hist

\* The host may discard at most MaxRenewals interpreters.
MaxRenewals == 1

\* YellowWebInterpreter::new() once more: the host goes on with a fresh
\* interpreter.  The history keeps the last transcript of the interpreter
\* left behind, and whether that interpreter had run nothing else.
Renew ==
  /\ host.pc = "idle"
  /\ hist.sources # <<>>
  /\ host.runs < MaxRuns
  /\ Len(hist.transcripts) < MaxRenewals
  /\ interp' = NewInterpreter
  /\ host' = [host EXCEPT !.pc = "new", !.last = "none", !.error = Line("", <<>>)]
  /\ hist' = [NoHistory EXCEPT !.transcripts =
                Append(hist.transcripts,
                       [source |-> Last(hist.sources),
                        fresh  |-> Len(hist.sources) = 1,
                        output |-> interp.output_buffer])]
  /\ UNCHANGED <<kont, ctl>>

\* YellowWebInterpreter::get_sanity, what the host reads between runs.
get_sanity == interp.sanity

(***************************************************************************)
(* Interpreter::execute                                                    *)
(***************************************************************************)
\* One turn of the `for stmt in statements` loop.
ExecuteLoop(now) ==
  /\ CanCall
  /\ ctl.m = "execute"
  /\ IF ctl.statements = <<>>
       THEN /\ ctl' = Ret(OkNone)
            /\ UNCHANGED <<interp, kont, host, hist>>
       ELSE LET chk == sanity_check([interp EXCEPT !.sanity = @ - 8], now)
            IN  /\ interp' = chk.it
                /\ UNCHANGED <<host, hist>>
                /\ IF chk.ok
                     THEN /\ Push([k |-> "execute", rest |-> Tail(ctl.statements)])
                          /\ ctl' = Stmt(Head(ctl.statements))
                     ELSE /\ ctl' = Ret(Fail("Sanity depleted", <<>>))
                          /\ UNCHANGED kont

\* execute_stmt has returned to the loop of execute.
ExecuteResume ==
  /\ Returning("execute")
  /\ ctl.res.r # "err"
  /\ Pop
  /\ ctl' = IF ctl.res.r = "none" THEN Execute(Top.rest) ELSE ctl
  /\ UNCHANGED <<interp, host, hist>>

\* The `?` operator: an Err returns at once from an activation that was
\* waiting on `...?`, with nothing of the activation's remaining code run.
QuestionMarkFrames ==
  {"execute", "Mask", "Echo", "CassildaCond", "Carcosa", "ExprStmt",
   "BinLeft", "BinRight", "CallArgs", "CallBody", "LoopCond", "LoopBody",
   "SuperposeArgs", "Collapse", "Rewrite"}

PropagateErr ==
  /\ host.pc = "running"
  /\ ctl.m = "ret"
  /\ ctl.res.r = "err"
  /\ kont # <<>>
  /\ Top.k \in QuestionMarkFrames
  /\ Pop
  /\ UNCHANGED <<interp, ctl, host, hist>>

\* A call is made with the native stack exhausted.
StackOverflow ==
  /\ host.pc = "running"
  /\ ctl.m \in {"execute", "stmt", "eval"}
  /\ Len(kont) >= StackLimit
  /\ host' = [host EXCEPT !.pc = "overflow"]
  /\ UNCHANGED <<interp, kont, ctl, hist>>

(***************************************************************************)
(* Interpreter::execute_stmt                                               *)
(***************************************************************************)
\* The head of execute_stmt: execution_depth += 1 and the depth check.
enter_stmt(it) ==
  LET deeper == [it EXCEPT !.execution_depth = @ + 1]
  IN  IF deeper.execution_depth > 100
        THEN [log(deeper, "Reality fragmenting at depth", deeper.execution_depth)
                EXCEPT !.sanity = @ - 500]
        ELSE deeper

\* The tail of execute_stmt: execution_depth -= 1.
leave_stmt(it) == [it EXCEPT !.execution_depth = @ - 1]

Entering(kind) == CanCall /\ ctl.m = "stmt" /\ ctl.stmt.s = kind

\* Stmt::Mask: `let val = self.eval_expr(value)?;`
StmtMask ==
  /\ Entering("Mask")
  /\ interp' = enter_stmt(interp)
  /\ Push([k |-> "Mask", name |-> ctl.stmt.name])
  /\ ctl' = Eval(ctl.stmt.value)
  /\ UNCHANGED <<host, hist>>

\* Stmt::Mask: `self.set_var(name, val); Ok(None)`
MaskAssign(now) ==
  /\ Returning("Mask")
  /\ ctl.res.r = "val"
  /\ interp' = leave_stmt(set_var(interp, Top.name, ctl.res.v, now))
  /\ Pop
  /\ ctl' = Ret(OkNone)
  /\ UNCHANGED <<host, hist>>

\* Stmt::Echo: `let val = self.eval_expr(expr)?;`
StmtEcho ==
  /\ Entering("Echo")
  /\ interp' = enter_stmt(interp)
  /\ Push([k |-> "Echo"])
  /\ ctl' = Eval(ctl.stmt.expr)
  /\ UNCHANGED <<host, hist>>

\* Stmt::Echo: the log line, by sanity band.
echo_line(it, val, now) ==
  IF it.sanity < 2000
    THEN log(it, "Echo (blackletter)", distort_output(Display(val), it.sanity, now))
  ELSE IF it.sanity < 5000
    THEN log(it, "Echo: ", Display(val))
  ELSE log(it, "", Display(val))

EchoLog(now) ==
  /\ Returning("Echo")
  /\ ctl.res.r = "val"
  /\ interp' = leave_stmt(echo_line(interp, ctl.res.v, now))
  /\ Pop
  /\ ctl' = Ret(OkNone)
  /\ UNCHANGED <<host, hist>>

\* Stmt::Scene: `self.call_stack.push(HashMap::new()); self.execute(body)`.
\* The activation notes the depth of call_stack before the push; no
\* operation reads the note.
StmtScene ==
  /\ Entering("Scene")
  /\ interp' = [enter_stmt(interp) EXCEPT !.call_stack = Append(@, EmptyMap)]
  /\ Push([k |-> "Scene", depth |-> Len(interp.call_stack)])
  /\ ctl' = Execute(ctl.stmt.body)
  /\ UNCHANGED <<host, hist>>

\* A pop that leaves the frame on the stack.
pop_frame_kept(it) == it

\* Vec::pop
pop_frame(it) ==
  [it EXCEPT !.call_stack = IF @ = <<>> THEN <<>> ELSE Front(@)]

\* Stmt::Scene: `self.call_stack.pop(); result`, then the tail.
SceneEnd ==
  /\ Returning("Scene")
  /\ interp' = leave_stmt(pop_frame(interp))
  /\ Pop
  /\ UNCHANGED <<ctl, host, hist>>

\* The tail of execute_stmt after an arm that ends in a call whose result
\* is the arm's value (a loop, a Cassilda branch, a whispered program).
StmtEnd ==
  /\ Returning("StmtEnd")
  /\ interp' = leave_stmt(interp)
  /\ Pop
  /\ UNCHANGED <<ctl, host, hist>>

\* Stmt::Hastur with is_rift false: execute_normal_loop is called and
\* evaluates the condition.
StmtHastur ==
  /\ Entering("Hastur")
  /\ ~ctl.stmt.is_rift
  /\ Len(kont) + 1 < StackLimit
  /\ interp' = enter_stmt(interp)
  /\ kont' = kont \o << [k |-> "StmtEnd"],
                        [k |-> "LoopCond", condition |-> ctl.stmt.condition,
                         body |-> ctl.stmt.body, iterations |-> 0] >>
  /\ ctl' = Eval(ctl.stmt.condition)
  /\ UNCHANGED <<host, hist>>

\* execute_normal_loop: `if !self.is_truthy(&cond_val) { break; }`, else
\* the body is executed.
LoopTest(now) ==
  /\ Returning("LoopCond")
  /\ ctl.res.r = "val"
  /\ IF is_truthy(ctl.res.v, now)
       THEN /\ Replace([Top EXCEPT !.k = "LoopBody"])
            /\ ctl' = Execute(Top.body)
       ELSE /\ Pop
            /\ ctl' = Ret(OkNone)
  /\ UNCHANGED <<interp, host, hist>>

\* A cap of one iteration more.
loop_cap_raised == 1000 + 1

\* execute_normal_loop: the bound of `if iterations > 1000`.
loop_cap == 1000

\* execute_normal_loop after the body: a returned value leaves the loop;
\* otherwise the iteration is counted and the cap tested.
LoopIterate ==
  /\ Returning("LoopBody")
  /\ ctl.res.r # "err"
  /\ UNCHANGED <<host, hist>>
  /\ IF ctl.res.r = "some"
       THEN /\ Pop
            /\ UNCHANGED <<interp, ctl>>
       ELSE LET iterations == Top.iterations + 1
                tired      == [interp EXCEPT !.sanity = @ - 50]
            IN  IF iterations > loop_cap
                  THEN /\ interp' =
                            [log(log(tired, "Hastur, Hastur, Hastur!", <<>>),
                                 "You have spoken the name thrice. The loop consumes itself.",
                                 <<>>)
                               EXCEPT !.sanity = @ - 2000]
                       /\ Pop
                       /\ ctl' = Ret(OkNone)
                  ELSE /\ interp' = tired
                       /\ Replace([Top EXCEPT !.k = "LoopCond",
                                              !.iterations = iterations])
                       /\ ctl' = Eval(Top.condition)

\* Stmt::Cassilda: `let cond_val = self.eval_expr(condition)?;`
StmtCassilda ==
  /\ Entering("Cassilda")
  /\ interp' = enter_stmt(interp)
  /\ Push([k |-> "CassildaCond", then_branch |-> ctl.stmt.then_branch,
           else_branch |-> ctl.stmt.else_branch])
  /\ ctl' = Eval(ctl.stmt.condition)
  /\ UNCHANGED <<host, hist>>

\* Stmt::Cassilda: the branch taken.
CassildaBranch(now, tanh) ==
  /\ Returning("CassildaCond")
  /\ ctl.res.r = "val"
  /\ UNCHANGED hist
  /\ IF CondPanics(ctl.res.v)
       THEN /\ host' = [host EXCEPT !.pc = "panicked"]
            /\ UNCHANGED <<interp, kont, ctl>>
       ELSE LET drift     == temporal_drift(interp, [tanh |-> tanh])
                take_then == evaluate_condition(interp, ctl.res.v, drift, now)
            IN  /\ UNCHANGED host
                /\ IF take_then
                     THEN /\ Replace([k |-> "StmtEnd"])
                          /\ ctl' = Execute(Top.then_branch)
                          /\ UNCHANGED interp
                     ELSE IF Top.else_branch # <<>>
                       THEN /\ Replace([k |-> "StmtEnd"])
                            /\ ctl' = Execute(Top.else_branch[1])
                            /\ UNCHANGED interp
                       ELSE /\ Pop
                            /\ ctl' = Ret(OkNone)
                            /\ interp' = leave_stmt(interp)

\* Stmt::Carcosa
StmtCarcosa ==
  /\ Entering("Carcosa")
  /\ UNCHANGED <<host, hist>>
  /\ IF ctl.stmt.expr = <<>>
       THEN /\ interp' = leave_stmt(enter_stmt(interp))
            /\ ctl' = Ret(OkSome(VNull))
            /\ UNCHANGED kont
       ELSE /\ interp' = enter_stmt(interp)
            /\ Push([k |-> "Carcosa"])
            /\ ctl' = Eval(ctl.stmt.expr[1])

CarcosaValue ==
  /\ Returning("Carcosa")
  /\ ctl.res.r = "val"
  /\ interp' = leave_stmt(interp)
  /\ Pop
  /\ ctl' = Ret(OkSome(ctl.res.v))
  /\ UNCHANGED <<host, hist>>

\* Stmt::Act
StmtAct(now) ==
  /\ Entering("Act")
  /\ interp' = leave_stmt(set_var(enter_stmt(interp), ctl.stmt.name,
                                  VFunction(ctl.stmt.params, ctl.stmt.body), now))
  /\ ctl' = Ret(OkNone)
  /\ UNCHANGED <<kont, host, hist>>

\* An anchor with no cap: `self.sanity += 10.0` alone.
anchor_uncapped(it) ==
  log([it EXCEPT !.reality_stable = TRUE, !.sanity = @ + 1000],
      "Reality temporarily stabilized", <<>>)

\* Stmt::Anchor
anchor(it) ==
  log([it EXCEPT !.reality_stable = TRUE,
                 !.sanity = IF @ + 1000 > 10000 THEN 10000 ELSE @ + 1000],
      "Reality temporarily stabilized", <<>>)

StmtAnchor ==
  /\ Entering("Anchor")
  /\ interp' = leave_stmt(anchor(enter_stmt(interp)))
  /\ ctl' = Ret(OkNone)
  /\ UNCHANGED <<kont, host, hist>>

\* A remember that never evicts.
remember_unbounded(it, name, now) ==
  LET found == get_var(it, name, now)
  IN  IF found = <<>> THEN it
      ELSE LET fragments == IF name \in DOMAIN it.memory_fragments
                              THEN it.memory_fragments[name] ELSE <<>>
           IN  [it EXCEPT !.memory_fragments =
                            MapPut(@, name, Append(fragments, found[1]))]

\* Stmt::Remember: push_back, then pop_front when more than 10 are queued.
remember(it, name, now) ==
  LET found == get_var(it, name, now)
  IN  IF found = <<>> THEN it
      ELSE LET fragments == IF name \in DOMAIN it.memory_fragments
                              THEN it.memory_fragments[name] ELSE <<>>
               pushed    == Append(fragments, found[1])
           IN  [it EXCEPT !.memory_fragments =
                            MapPut(@, name, IF Len(pushed) > 10 THEN Tail(pushed)
                                                                ELSE pushed)]

StmtRemember(now) ==
  /\ Entering("Remember")
  /\ interp' = leave_stmt(remember(enter_stmt(interp), ctl.stmt.name, now))
  /\ ctl' = Ret(OkNone)
  /\ UNCHANGED <<kont, host, hist>>

\* Stmt::Forget: the name is removed from the innermost frame when there
\* is a frame, from global_env when there is none.
forget(it, name) ==
  log(IF it.call_stack # <<>>
        THEN [it EXCEPT !.call_stack[Len(it.call_stack)] = MapRemove(@, name)]
        ELSE [it EXCEPT !.global_env = MapRemove(@, name)],
      "Forgotten: {}... but fragments remain", name)

StmtForget ==
  /\ Entering("Forget")
  /\ interp' = leave_stmt(forget(enter_stmt(interp), ctl.stmt.name))
  /\ ctl' = Ret(OkNone)
  /\ UNCHANGED <<kont, host, hist>>

\* mutate_value; clk.tanh as in temporal_drift.
mutate_value(it, val, clk) ==
  LET drift == temporal_drift(it, clk)
  IN  CASE val.t = "Number"  -> NumAdd(val, VNumber((drift * 15) \div 100 - 750))
        [] val.t = "Boolean" -> IF drift > 7000 THEN VBoolean(~val.b) ELSE val
        [] OTHER -> val

\* Stmt::Rewrite: the body of the arm.
rewrite(it, target, clk) ==
  LET found == get_var(it, target, clk.now)
  IN  IF found = <<>> THEN it
      ELSE LET stored  == set_var(it, target, mutate_value(it, found[1], clk),
                                  clk.now)
               counted == [stored EXCEPT !.mutations = @ + 1]
           IN  IF counted.mutations % 10 = 0
                 THEN [log(counted, "{} mutations... reality frays",
                           counted.mutations)
                         EXCEPT !.sanity = @ - 200]
                 ELSE counted

StmtRewrite(clk) ==
  /\ Entering("Rewrite")
  /\ interp' = leave_stmt(rewrite(enter_stmt(interp), ctl.stmt.target, clk))
  /\ ctl' = Ret(OkNone)
  /\ hist' = IF get_var(enter_stmt(interp), ctl.stmt.target, clk.now) = <<>>
               THEN hist
               ELSE [hist EXCEPT !.rewrites = @ + 1]
  /\ UNCHANGED <<kont, host>>

\* Stmt::ExprStmt: `self.eval_expr(expr)?;`
StmtExprStmt ==
  /\ Entering("ExprStmt")
  /\ interp' = enter_stmt(interp)
  /\ Push([k |-> "ExprStmt"])
  /\ ctl' = Eval(ctl.stmt.expr)
  /\ UNCHANGED <<host, hist>>

ExprStmtDone ==
  /\ Returning("ExprStmt")
  /\ ctl.res.r = "val"
  /\ interp' = leave_stmt(interp)
  /\ Pop
  /\ ctl' = Ret(OkNone)
  /\ UNCHANGED <<host, hist>>

\* Stmt::Whisper from the security checks to the call of execute(ast):
\* [kind, it, ast].  kind "rejected" is an early `return Ok(None)`,
\* "failed" the Err arm of the parse, "accepted" the call of execute(ast),
\* "hang" a parse that never returns.  (The activation that waits for
\* execute(ast) is marked with the whisper's source.)
whisper_outcome(chk, parsed) ==
  LET back(j) == [j EXCEPT !.whisper_count = j.whisper_count - 1]
  IN  IF chk.verdict # "pass"
        THEN [kind |-> "rejected", it |-> chk.it, ast |-> <<>>]
      ELSE IF parsed.r = "hang"
        THEN [kind |-> "hang", it |-> chk.it, ast |-> <<>>]
      ELSE IF parsed.r = "err"
        THEN [kind |-> "failed",
              it   |-> back(log(chk.it, "Whisper fails to manifest properly", <<>>)),
              ast  |-> <<>>]
      ELSE IF Len(parsed.v) > 10
        THEN [kind |-> "rejected",
              it   |-> back(log(chk.it, "Whisper AST too complex. Sanity check failed.",
                                <<>>)),
              ast  |-> <<>>]
      ELSE [kind |-> "accepted",
            it   |-> [chk.it EXCEPT !.sanity = @ - 500],
            ast  |-> parsed.v]

whisper(it, code, clk) ==
  whisper_outcome(whisper_checks(it, code), lex_and_parse(code, clk))

StmtWhisper(clk) ==
  /\ Entering("Whisper")
  /\ \E w \in {whisper(enter_stmt(interp), ctl.stmt.code, clk)} :
         CASE w.kind = "rejected" ->
                /\ interp' = w.it
                /\ ctl' = Ret(OkNone)
                /\ UNCHANGED <<kont, host, hist>>
           [] w.kind = "failed" ->
                /\ interp' = leave_stmt(w.it)
                /\ ctl' = Ret(OkNone)
                /\ UNCHANGED <<kont, host, hist>>
           [] w.kind = "accepted" ->
                /\ interp' = w.it
                /\ Push([k |-> "StmtEnd", whisper |-> ctl.stmt.code])
                /\ ctl' = Execute(w.ast)
                /\ hist' = [hist EXCEPT !.whispers =
                              Append(@, [code       |-> ctl.stmt.code,
                                         statements |-> Len(w.ast)])]
                /\ UNCHANGED host
           [] w.kind = "hang" ->
                /\ interp' = w.it
                /\ host' = [host EXCEPT !.pc = "hung"]
                /\ UNCHANGED <<kont, ctl, hist>>


(***************************************************************************)
(* Interpreter::eval_expr                                                  *)
(***************************************************************************)
Evaluating(kind) == CanCall /\ ctl.m = "eval" /\ ctl.expr.e = kind

\* Expr::Number
EvalNumber(tanh) ==
  /\ Evaluating("Number")
  /\ ctl' = IF interp.sanity < 4000 /\ ~interp.reality_stable
              THEN LET drift == ((temporal_drift(interp, [tanh |-> tanh]) - 5000) * 4)
                                  \div 100
                   IN  Ret(Value(VNumber(ctl.expr.n + drift)))
              ELSE Ret(Value(VNumber(ctl.expr.n)))
  /\ UNCHANGED <<interp, kont, host, hist>>

\* Expr::String
EvalString ==
  /\ Evaluating("String")
  /\ ctl' = Ret(Value(VString(ctl.expr.str)))
  /\ UNCHANGED <<interp, kont, host, hist>>

\* Expr::Boolean
EvalBoolean ==
  /\ Evaluating("Boolean")
  /\ ctl' = Ret(Value(VBoolean(ctl.expr.b)))
  /\ UNCHANGED <<interp, kont, host, hist>>

\* Expr::Identifier
EvalIdentifier(now) ==
  /\ Evaluating("Identifier")
  /\ LET found == get_var(interp, ctl.expr.name, now)
     IN  ctl' = IF found = <<>>
                  THEN Ret(Fail("Undefined: '{}'... or does it exist?", ctl.expr.name))
                  ELSE Ret(Value(found[1]))
  /\ UNCHANGED <<interp, kont, host, hist>>

\* A manifest that takes the oldest fragment.
manifest_oldest(it, name) ==
  IF name \in DOMAIN it.memory_fragments /\ it.memory_fragments[name] # <<>>
    THEN [it |-> log([it EXCEPT !.memory_fragments[name] = Tail(@)],
                     "Manifesting '{}' from memory fragments", name),
          v  |-> Head(it.memory_fragments[name])]
    ELSE [it |-> log(it, "No fragments of '{}' remain in the void", name),
          v  |-> VNull]

\* Expr::Manifest: pop_back, or Null; [it, v].
manifest(it, name) ==
  IF name \in DOMAIN it.memory_fragments /\ it.memory_fragments[name] # <<>>
    THEN [it |-> log([it EXCEPT !.memory_fragments[name] = Front(@)],
                     "Manifesting '{}' from memory fragments", name),
          v  |-> Last(it.memory_fragments[name])]
    ELSE [it |-> log(it, "No fragments of '{}' remain in the void", name),
          v  |-> VNull]

EvalManifest ==
  /\ Evaluating("Manifest")
  /\ \E m \in {manifest(interp, ctl.expr.name)} :
       /\ interp' = m.it
       /\ ctl' = Ret(Value(m.v))
  /\ UNCHANGED <<kont, host, hist>>

\* Expr::Rewrite: `let mut val = self.eval_expr(*target)?;`
EvalRewrite ==
  /\ Evaluating("Rewrite")
  /\ Push([k |-> "Rewrite", mutation_seed |-> ctl.expr.mutation_seed])
  /\ ctl' = Eval(ctl.expr.target)
  /\ UNCHANGED <<interp, host, hist>>

\* Expr::Rewrite: the match on the value; chaos in thousandths.
rewritten(val, mutation_seed) ==
  LET chaos == mutation_seed % 1000
  IN  CASE val.t = "Number" ->
             IF val.k = "fin" THEN VNumber((val.n * (500 + chaos)) \div 1000)
             ELSE val
        [] val.t = "Boolean" -> IF chaos > 700 THEN VBoolean(~val.b) ELSE val
        [] OTHER -> val

RewriteValue ==
  /\ Returning("Rewrite")
  /\ ctl.res.r = "val"
  /\ interp' = [interp EXCEPT !.mutations = @ + 1]
  /\ Pop
  /\ ctl' = Ret(Value(rewritten(ctl.res.v, Top.mutation_seed)))
  /\ UNCHANGED <<host, hist>>

\* Expr::Superpose: the log line and the value.
superposition(it, values) ==
  [it |-> log(it, "Quantum superposition created with {} states", Len(values)),
   v  |-> VSuperposition(values)]

\* Expr::Superpose: `values.push(Box::new(self.eval_expr(e)?));` for the
\* first expression, or the value when there is none.
EvalSuperpose ==
  /\ Evaluating("Superpose")
  /\ UNCHANGED <<host, hist>>
  /\ IF ctl.expr.exprs = <<>>
       THEN /\ interp' = superposition(interp, <<>>).it
            /\ ctl' = Ret(Value(superposition(interp, <<>>).v))
            /\ UNCHANGED kont
       ELSE /\ Push([k |-> "SuperposeArgs", exprs |-> ctl.expr.exprs,
                     values |-> <<>>, i |-> 1])
            /\ ctl' = Eval(ctl.expr.exprs[1])
            /\ UNCHANGED interp

\* Expr::Superpose: the next expression, or the value after the last one.
SuperposeNext ==
  /\ Returning("SuperposeArgs")
  /\ ctl.res.r = "val"
  /\ UNCHANGED <<host, hist>>
  /\ LET values == Append(Top.values, ctl.res.v)
     IN  IF Top.i < Len(Top.exprs)
           THEN /\ Replace([Top EXCEPT !.values = values, !.i = @ + 1])
                /\ ctl' = Eval(Top.exprs[Top.i + 1])
                /\ UNCHANGED interp
           ELSE /\ Pop
                /\ interp' = superposition(interp, values).it
                /\ ctl' = Ret(Value(superposition(interp, values).v))

\* Expr::Collapse: `let val = self.eval_expr(*expr)?;`
EvalCollapse ==
  /\ Evaluating("Collapse")
  /\ Push([k |-> "Collapse"])
  /\ ctl' = Eval(ctl.expr.expr)
  /\ UNCHANGED <<interp, host, hist>>

\* Expr::Collapse: the index drawn, from 0; pseudo_random is in
\* ten-thousandths.
collapse_index(len, now) == ((pseudo_random(now, now) * len) \div 10000) % len

\* Expr::Collapse: the match on the value.  On a superposition of no
\* values the index is a remainder by zero, which panics.
CollapseValue(now) ==
  /\ Returning("Collapse")
  /\ ctl.res.r = "val"
  /\ UNCHANGED hist
  /\ LET val == ctl.res.v
     IN  IF val.t = "Quantum" /\ val.q = "Superposition"
           THEN IF val.vals = <<>>
                  THEN /\ host' = [host EXCEPT !.pc = "panicked"]
                       /\ UNCHANGED <<interp, kont, ctl>>
                  ELSE LET collapsed == val.vals[collapse_index(Len(val.vals), now) + 1]
                       IN  /\ interp' = log(interp, "Wavefunction collapsed to: {}",
                                            Display(collapsed))
                           /\ Pop
                           /\ ctl' = Ret(Value(collapsed))
                           /\ UNCHANGED host
           ELSE /\ Pop
                /\ ctl' = Ret(Value(val))
                /\ UNCHANGED <<interp, host>>

\* Expr::BinaryOp: `let l = self.eval_expr(*left)?;`
EvalBinaryOp ==
  /\ Evaluating("BinaryOp")
  /\ Push([k |-> "BinLeft", expr |-> ctl.expr])
  /\ ctl' = Eval(ctl.expr.left)
  /\ UNCHANGED <<interp, host, hist>>

\* Expr::BinaryOp: `let r = self.eval_expr(*right)?;`
BinaryRight ==
  /\ Returning("BinLeft")
  /\ ctl.res.r = "val"
  /\ Replace([k |-> "BinRight", expr |-> Top.expr, l |-> ctl.res.v])
  /\ ctl' = Eval(Top.expr.right)
  /\ UNCHANGED <<interp, host, hist>>

\* Expr::BinaryOp: hash_influence, instability and apply_binary_op.
BinaryApply(tanh) ==
  /\ Returning("BinRight")
  /\ ctl.res.r = "val"
  /\ LET hash_influence == Top.expr.perception_hash % 100
         instability    == (Top.expr.stability
                              * temporal_drift(interp, [tanh |-> tanh])) \div 10000
         applied        == apply_binary_op(interp, Top.l, Top.expr.op, ctl.res.v,
                                           hash_influence, instability)
     IN  /\ interp' = applied.it
         /\ ctl' = Ret(applied.res)
  /\ Pop
  /\ UNCHANGED <<host, hist>>

\* Expr::Call after the arguments: `self.call_stack.push(frame);
\* let result = self.execute(body)?;`
call_body(frame, body) ==
  /\ interp' = [interp EXCEPT !.call_stack = Append(@, frame)]
  /\ ctl' = Execute(body)

\* Expr::Call: the lookup, the arity check and the first argument.
EvalCall(now) ==
  /\ Evaluating("Call")
  /\ UNCHANGED <<host, hist>>
  /\ LET func == get_var(interp, ctl.expr.name, now)
     IN  IF func = <<>>
           THEN /\ ctl' = Ret(Fail("Unknown act: {}", ctl.expr.name))
                /\ UNCHANGED <<interp, kont>>
         ELSE IF func[1].t # "Function"
           THEN /\ ctl' = Ret(Fail("{} is not callable", ctl.expr.name))
                /\ UNCHANGED <<interp, kont>>
         ELSE IF Len(func[1].params) # Len(ctl.expr.args)
           THEN /\ ctl' = Ret(Fail("Arity mismatch: expected {}, got {}",
                                   <<Len(func[1].params), Len(ctl.expr.args)>>))
                /\ UNCHANGED <<interp, kont>>
         ELSE IF ctl.expr.args = <<>>
           THEN /\ Push([k |-> "CallBody"])
                /\ call_body(EmptyMap, func[1].body)
         ELSE /\ Push([k |-> "CallArgs", params |-> func[1].params,
                       args |-> ctl.expr.args, body |-> func[1].body,
                       frame |-> EmptyMap, i |-> 1])
              /\ ctl' = Eval(ctl.expr.args[1])
              /\ UNCHANGED interp

\* Expr::Call: `frame.insert(param.clone(), arg_val);` and the next
\* argument, or the body after the last one.
CallBind ==
  /\ Returning("CallArgs")
  /\ ctl.res.r = "val"
  /\ UNCHANGED <<host, hist>>
  /\ LET frame == MapPut(Top.frame, Top.params[Top.i], ctl.res.v)
     IN  IF Top.i < Len(Top.args)
           THEN /\ Replace([Top EXCEPT !.frame = frame, !.i = @ + 1])
                /\ ctl' = Eval(Top.args[Top.i + 1])
                /\ UNCHANGED interp
           ELSE /\ Replace([k |-> "CallBody"])
                /\ call_body(frame, Top.body)

\* Expr::Call: `self.call_stack.pop(); Ok(result.unwrap_or(Value::Null))`,
\* reached when execute(body) returned Ok.
CallReturn ==
  /\ Returning("CallBody")
  /\ ctl.res.r # "err"
  /\ interp' = pop_frame(interp)
  /\ Pop
  /\ ctl' = Ret(Value(IF ctl.res.r = "some" THEN ctl.res.v ELSE VNull))
  /\ UNCHANGED <<host, hist>>

Next ==
  \/ \E source \in Sessions[host.session], now \in NowReadings, drift \in DriftReadings :
       RunCodeStart(source, Clock(now, drift))
  \/ RunCodeReturn
  \/ Renew
  \/ \E now \in NowReadings : ExecuteLoop(now)
  \/ ExecuteResume
  \/ PropagateErr
  \/ StackOverflow
  \/ StmtMask
  \/ \E now \in NowReadings : MaskAssign(now)
  \/ StmtEcho
  \/ \E now \in NowReadings : EchoLog(now)
  \/ StmtScene
  \/ SceneEnd
  \/ StmtEnd
  \/ StmtHastur
  \/ \E now \in NowReadings : LoopTest(now)
  \/ LoopIterate
  \/ StmtCassilda
  \/ \E now \in NowReadings, tanh \in TanhReadings : CassildaBranch(now, tanh)
  \/ StmtCarcosa
  \/ CarcosaValue
  \/ \E now \in NowReadings : StmtAct(now)
  \/ StmtAnchor
  \/ \E now \in NowReadings : StmtRemember(now)
  \/ StmtForget
  \/ \E now \in NowReadings, tanh \in TanhReadings :
       StmtRewrite([now |-> now, tanh |-> tanh])
  \/ StmtExprStmt
  \/ ExprStmtDone
  \/ \E now \in NowReadings, drift \in DriftReadings : StmtWhisper(Clock(now, drift))
  \/ \E tanh \in TanhReadings : EvalNumber(tanh)
  \/ EvalString
  \/ EvalBoolean
  \/ \E now \in NowReadings : EvalIdentifier(now)
  \/ EvalManifest
  \/ EvalRewrite
  \/ RewriteValue
  \/ EvalSuperpose
  \/ SuperposeNext
  \/ EvalCollapse
  \/ \E now \in NowReadings : CollapseValue(now)
  \/ EvalBinaryOp
  \/ BinaryRight
  \/ \E tanh \in TanhReadings : BinaryApply(tanh)
  \/ \E now \in NowReadings : EvalCall(now)
  \/ CallBind
  \/ CallReturn

Spec == Init /\ [][Next]_vars

\* run_code runs to its end once called: every step that can be taken is
\* taken.
FairSpec == Spec /\ WF_vars(Next)

(***************************************************************************)
(* Interpreter::get_var on its own: the interpreter is drawn from bounded  *)
(* sets of scopes and one lookup is applied to it.                         *)
(***************************************************************************)
LookupDepth == 2

\* "void", one of the names spawn_phantom gives a phantom.
NameVoid == <<"v","o","i","d">>

NameY == <<"y">>

LookupFrames ==
  { EmptyMap, MapPut(EmptyMap, NameVoid, VNumber(100)), MapPut(EmptyMap, NameVoid, VNumber(200)) }

LookupStacks == UNION { [1..n -> LookupFrames] : n \in 0..LookupDepth }

LookupGlobals ==
  { EmptyMap, MapPut(EmptyMap, NameVoid, VNumber(300)),
    MapPut(MapPut(EmptyMap, NameVoid, VNumber(300)), NameY, VBoolean(TRUE)) }

LookupPhantoms == { EmptyMap, MapPut(EmptyMap, NameVoid, VPhantom) }

LookupInfections ==
  { EmptyMap,
    MapPut(EmptyMap, NameVoid, [source |-> NameVoid, virulence |-> 7500, mutation_vector |-> 7]) }

LookupInterpreters ==
  { [NewInterpreter EXCEPT !.sanity = sanity, !.phantom_variables = phantoms,
                           !.call_stack = stack, !.global_env = global,
                           !.infections = infections] :
      sanity \in {1999, 2000}, phantoms \in LookupPhantoms, stack \in LookupStacks,
      global \in LookupGlobals, infections \in LookupInfections }

UnitHost ==
  [pc |-> "unit", runs |-> 0, last |-> "none", error |-> Line("", <<>>),
   session |-> "calls"]

LookupInit ==
  /\ interp \in LookupInterpreters
  /\ kont = <<>>
  /\ ctl = Idle
  /\ host = UnitHost
  /\ hist = NoHistory

\* One call of get_var; ctl keeps the arguments and the result.
Lookup(name, now) ==
  /\ ctl = Idle
  /\ ctl' = [m |-> "looked", name |-> name, now |-> now,
             found |-> get_var(interp, name, now)]
  /\ UNCHANGED <<interp, kont, host, hist>>

LookupNext == \E name \in {NameVoid, NameY}, now \in NowReadings : Lookup(name, now)

LookupSpec == LookupInit /\ [][LookupNext]_vars

(***************************************************************************)
(* Interpreter::set_var on its own: the interpreter is drawn from bounded  *)
(* sets of scopes and echo buffers and one assignment is applied to it.    *)
(***************************************************************************)
\* The echo buffer after n assignments of n different values.
StoredEchoes(n) ==
  [i \in 1..n |-> [variable_name |-> NameY, ghost_value |-> VNumber(i),
                   stability |-> 10000]]

StoreInterpreters ==
  { [NewInterpreter EXCEPT !.sanity = sanity, !.call_stack = stack,
                           !.global_env = global,
                           !.temporal_echoes = StoredEchoes(n)] :
      sanity \in {10000, 2500}, stack \in LookupStacks, global \in LookupGlobals,
      n \in {0, 1, 40, 49, 50} }

StoreInit ==
  /\ interp \in StoreInterpreters
  /\ kont = <<>>
  /\ ctl = Idle
  /\ host = UnitHost
  /\ hist = NoHistory

\* One call of set_var; ctl keeps the arguments and the interpreter before.
Store(name, value, now) ==
  /\ ctl = Idle
  /\ interp' = set_var(interp, name, value, now)
  /\ ctl' = [m |-> "stored", name |-> name, value |-> value, before |-> interp]
  /\ UNCHANGED <<kont, host, hist>>

StoreNext ==
  \E name \in {NameVoid, NameY}, value \in {VNumber(700), VNull}, now \in NowReadings :
    Store(name, value, now)

StoreSpec == StoreInit /\ [][StoreNext]_vars

(***************************************************************************)
(* Interpreter::sanity_check on its own: the interpreter is drawn from     *)
(* bounded sets of scopes, sanities and echo buffers, and one check is     *)
(* applied to it.  The newest echo was written at full sanity or at a      *)
(* sanity of 29.                                                           *)
(***************************************************************************)
EchoBuffers ==
  { [StoredEchoes(n) EXCEPT ![n].stability = stability] :
      n \in {1, 2, 50}, stability \in {10000, 2900} } \cup {<<>>}

EchoInterpreters ==
  { [NewInterpreter EXCEPT !.sanity = sanity, !.call_stack = stack,
                           !.global_env = global, !.temporal_echoes = echoes] :
      sanity \in {4500, 3500, 2500, -100}, stack \in LookupStacks,
      global \in LookupGlobals, echoes \in EchoBuffers }

EchoInit ==
  /\ interp \in EchoInterpreters
  /\ kont = <<>>
  /\ ctl = Idle
  /\ host = UnitHost
  /\ hist = NoHistory

\* One call of sanity_check; ctl keeps its result and the interpreter before.
Check(now) ==
  /\ ctl = Idle
  /\ \E chk \in {sanity_check(interp, now)} :
       /\ interp' = chk.it
       /\ ctl' = [m |-> "checked", ok |-> chk.ok, before |-> interp]
  /\ UNCHANGED <<kont, host, hist>>

EchoNext == \E now \in NowReadings : Check(now)

EchoSpec == EchoInit /\ [][EchoNext]_vars

(***************************************************************************)
(* Stmt::Remember and Expr::Manifest on their own: the interpreter is      *)
(* drawn from bounded sets of fragment queues and scopes, and up to        *)
(* MemoryOps operations are applied to it.                                 *)
(***************************************************************************)
MemoryOps == 3

\* The queue after n remembers of n different values.
StoredFragments(n) == [i \in 1..n |-> VNumber(i)]

MemoryFragments ==
  {EmptyMap} \cup { MapPut(EmptyMap, NameVoid, StoredFragments(n)) : n \in 0..10 }

MemoryInterpreters ==
  { [NewInterpreter EXCEPT !.global_env = global, !.memory_fragments = fragments] :
      global \in LookupGlobals, fragments \in MemoryFragments }

MemoryInit ==
  /\ interp \in MemoryInterpreters
  /\ kont = <<>>
  /\ ctl = [m |-> "memory", op |-> "none", ops |-> 0]
  /\ host = UnitHost
  /\ hist = NoHistory

\* ctl keeps the operation, its arguments, its result and the interpreter
\* before it.
Remember(name, now) ==
  /\ ctl.m = "memory" /\ ctl.ops < MemoryOps
  /\ interp' = remember(interp, name, now)
  /\ ctl' = [m |-> "memory", op |-> "remember", ops |-> ctl.ops + 1, name |-> name,
             now |-> now, before |-> interp]
  /\ UNCHANGED <<kont, host, hist>>

Manifest(name) ==
  /\ ctl.m = "memory" /\ ctl.ops < MemoryOps
  /\ \E m \in {manifest(interp, name)} :
       /\ interp' = m.it
       /\ ctl' = [m |-> "memory", op |-> "manifest", ops |-> ctl.ops + 1,
                  name |-> name, v |-> m.v, before |-> interp]
  /\ UNCHANGED <<kont, host, hist>>

MemoryNext ==
  \/ \E name \in {NameVoid, NameY}, now \in NowReadings : Remember(name, now)
  \/ \E name \in {NameVoid, NameY} : Manifest(name)

MemorySpec == MemoryInit /\ [][MemoryNext]_vars

(***************************************************************************)
(* Stmt::Forget on its own: the interpreter is drawn from the scopes of    *)
(* LookupSpec and one forget is applied to it.                             *)
(***************************************************************************)
ForgetInit ==
  /\ interp \in LookupInterpreters
  /\ kont = <<>>
  /\ ctl = Idle
  /\ host = UnitHost
  /\ hist = NoHistory

\* ctl keeps the name and the interpreter before.
Forget(name) ==
  /\ ctl = Idle
  /\ interp' = forget(interp, name)
  /\ ctl' = [m |-> "forgotten", name |-> name, before |-> interp]
  /\ UNCHANGED <<kont, host, hist>>

ForgetNext == \E name \in {NameVoid, NameY} : Forget(name)

ForgetSpec == ForgetInit /\ [][ForgetNext]_vars

(***************************************************************************)
(* Lexer::tokenize on its own: the input is drawn from the character       *)
(* sequences of up to LexLen characters over LexChars, at the start of the *)
(* source and after 850 blanks, where corruption_level is above every      *)
(* threshold of the lexer.                                                 *)
(***************************************************************************)
LexLen == 3

LexChars == {"a", "1", ".", "!", "=", "#", "\n", " ", "\"", "@", "-"}

LexWords(n) == UNION { [1..k -> LexChars] : k \in 0..n }

LexInputs == LexWords(LexLen) \cup { Spaces(850) \o w : w \in LexWords(LexLen - 1) }

LexInit ==
  /\ interp = NewInterpreter
  /\ kont = <<>>
  /\ ctl \in { [m |-> "input", input |-> input] : input \in LexInputs }
  /\ host = UnitHost
  /\ hist = NoHistory

\* One call of tokenize; ctl keeps the input and the lexer's last state
\* within the Len(input) + 1 turns that tokenize is given.
Tokenize(clk) ==
  /\ ctl.m = "input"
  /\ ctl' = [m |-> "tokens", input |-> ctl.input,
             lx |-> lex_turns(ctl.input, [tokens |-> <<>>, pos |-> 1, done |-> FALSE],
                              Len(ctl.input) + 1, clk)]
  /\ UNCHANGED <<interp, kont, host, hist>>

LexNext ==
  \E now \in NowReadings, drift \in DriftReadings : Tokenize(Clock(now, drift))

LexSpec == LexInit /\ [][LexNext]_vars

(***************************************************************************)
(* Parser::parse_program on its own: the token list is drawn from the      *)
(* lists the lexer gives for ParseStatements - 1 or ParseStatements        *)
(* statements, some `echo(1);` followed by some `mask x -> 1;`.  The       *)
(* parser's sanity falls below 20 with the 534th token consumed.           *)
(***************************************************************************)
ParseStatements == 108

EchoTokens ==
  <<Tok("Echo"), Tok("LParen"), TokNumber(100), Tok("RParen"), Tok("Semicolon")>>

MaskTokens ==
  <<Tok("Mask"), TokIdentifier(<<"x">>), Tok("Becomes"), TokNumber(100),
    Tok("Semicolon")>>

ParseInputs ==
  UNION { { Repeat(EchoTokens, echoes) \o Repeat(MaskTokens, n - echoes)
              \o <<Tok("Eof")>> : echoes \in 0..n } :
          n \in {ParseStatements - 1, ParseStatements} }

ParseInit ==
  /\ interp = NewInterpreter
  /\ kont = <<>>
  /\ ctl \in { [m |-> "tokens", tokens |-> tokens] : tokens \in ParseInputs }
  /\ host = UnitHost
  /\ hist = NoHistory

\* `Parser::new(tokens).parse_program()`
Parse(now) ==
  /\ ctl.m = "tokens"
  /\ ctl' = [m |-> "parsed", tokens |-> ctl.tokens,
             result |-> parse_program(NewParser(ctl.tokens, now))]
  /\ UNCHANGED <<interp, kont, host, hist>>

ParseNext == \E now \in NowReadings : Parse(now)

ParseSpec == ParseInit /\ [][ParseNext]_vars
(***************************************************************************)
(* Claims.                                                                 *)
(***************************************************************************)
Returned == host.pc = "idle" /\ host.runs > 0

Logged(text) == \E i \in 1..Len(interp.output_buffer) : interp.output_buffer[i].text = text

Depleted == Fail("Sanity depleted", <<>>)

\* C1: whenever run_code has returned, after a completed program or a
\* runtime error raised anywhere, call_stack is empty.
C1_CallStackEmptyOnReturn == Returned => interp.call_stack = <<>>

\* C2: execution_depth is restored on every exit path of every statement,
\* so it is 0 whenever run_code has returned.
C2_DepthZeroOnReturn == Returned => interp.execution_depth = 0

\* C3: a statement entered while execution_depth exceeds 100 fails instead
\* of being executed: no block is executed and no expression evaluated at a
\* nesting depth greater than 100.
C3_NothingRunsBeyondDepth100 ==
  (host.pc = "running" /\ ctl.m \in {"execute", "eval"})
    => interp.execution_depth <= 100

\* A whisper statement that returns without its program being executed (a
\* rejection by any rule) leaves whisper_count as it was before.
RejectedWhisperKeepsCount ==
  (host.pc = "running" /\ ctl.m = "stmt" /\ ctl.stmt.s = "Whisper" /\ ctl'.m = "ret")
    => interp'.whisper_count = interp.whisper_count

\* C4: whisper_count is at most max_whispers at every statement boundary,
\* and a whisper rejected by any rule leaves whisper_count equal to its
\* value before that whisper.
C4_WhisperCount ==
  [](interp.whisper_count <= max_whispers) /\ [][RejectedWhisperKeepsCount]_vars

\* C4 witness: the limit was reached and a further whisper was rejected.
C4_LimitReached ==
  interp.whisper_count = max_whispers /\ Logged("Whisper limit exceeded.")

\* C5: generated_code holds exactly the sources of the whispers that were
\* accepted (their programs executed), in order; a rejected whisper adds
\* nothing to it.
C5_GeneratedCodeIsAccepted ==
  interp.generated_code = [i \in 1..Len(hist.whispers) |-> hist.whispers[i].code]

\* code contains pattern as a substring, compared case-insensitively.
contains(code, pattern) == \E i \in 1..Len(code) : OccursAt(code, pattern, i)

\* C6: no whisper whose source contains a forbidden string as a substring,
\* whatever surrounds it, is executed.
C6_ForbiddenSubstringNeverExecuted ==
  \A i \in 1..Len(hist.whispers) :
    \A k \in 1..Len(forbidden_patterns) :
      ~contains(hist.whispers[i].code, forbidden_patterns[k])

\* C7: over the lifetime of the interpreter at most 10 whisper sources are
\* executed, each of at most 1000 characters and at most 10 top-level
\* statements.
C7_WhisperCaps ==
  /\ Len(hist.whispers) <= 10
  /\ \A i \in 1..Len(hist.whispers) :
       /\ Len(hist.whispers[i].code) <= 1000
       /\ hist.whispers[i].statements <= 10

\* C7 witness: ten whispers have been executed, one of them in an earlier
\* run_code call, and the next one was turned away.
C7_TenExecuted ==
  /\ Len(hist.whispers) = 10
  /\ host.runs > 1
  /\ host.pc = "running"
  /\ ctl.m = "ret"
  /\ Logged("Whisper limit exceeded.")

\* C8: the execution of a successfully parsed program ends by returning to
\* run_code; it never ends by exhausting the native stack or by a panic.
C8_ExecutionReturns == host.pc \notin {"overflow", "panicked"}

\* C9: parse_program returns a statement list or an error for every token
\* list ending in end-of-input: no call of it runs forever.
C9_ParseReturns == host.pc # "hung"

\* Each turn of the loop of execute takes 0.08 from sanity before the
\* statement is dispatched; if sanity is then below 0 the statement is not
\* dispatched and the block fails with the sanity-depleted error.
CheckedBeforeDispatch ==
  (host.pc = "running" /\ ctl.m = "execute" /\ ctl.statements # <<>> /\ ctl' # ctl)
    => /\ interp'.sanity = interp.sanity - 8
       /\ IF interp.sanity - 8 < 0
            THEN ctl' = Ret(Depleted) /\ kont' = kont
            ELSE ctl' = Stmt(Head(ctl.statements))

\* The sanity-depleted error is handed unchanged from each enclosing block,
\* loop and call to the next, until run_code reports it as the runtime
\* error.
DepletionPropagates ==
  (host.pc = "running" /\ ctl = Ret(Depleted))
    => \/ ctl' = ctl /\ host' = host /\ Len(kont') <= Len(kont)
       \/ /\ host'.pc = "idle"
          /\ host'.last = "runtime_error"
          /\ host'.error = Depleted.msg

\* C10: before each statement of a block is dispatched sanity is reduced by
\* 0.08 and checked; below 0 the statement is not dispatched and the block
\* fails with the sanity-depleted error, which reaches run_code as a runtime
\* error through every enclosing block, loop and call.
C10_SanityDepleted == [][CheckedBeforeDispatch /\ DepletionPropagates]_vars

\* C10 witness: run_code has reported the sanity-depleted error raised in a
\* loop inside a function body.
C10_DepletedInsideCall ==
  /\ Returned
  /\ host.last = "runtime_error"
  /\ host.error = Depleted.msg
  /\ interp.call_stack # <<>>
  /\ Logged("Division by zero: reality tears")

AnchorStep ==
  host.pc = "running" /\ ctl.m = "stmt" /\ ctl.stmt.s = "Anchor" /\ ctl'.m = "ret"

\* YellowWebInterpreter::new builds another interpreter; its sanity of 100 is
\* not a rise of the sanity of the interpreter it replaces.
Renewed == host.pc # "new" /\ host'.pc = "new"

OnlyAnchorRestores ==
  /\ (interp'.sanity > interp.sanity /\ ~Renewed) => AnchorStep
  /\ AnchorStep =>
       LET sanity == enter_stmt(interp).sanity
       IN  interp'.sanity = IF sanity + 1000 < 10000 THEN sanity + 1000 ELSE 10000

\* C11: a step raises sanity only if it executes an anchor statement, which
\* sets sanity to min(100, sanity + 10) (sanity as the statement finds it,
\* after the prologue of execute_stmt); sanity is at most 100 in every state.
C11_SanityRisesOnlyByAnchor ==
  [](interp.sanity <= 10000) /\ [][OnlyAnchorRestores]_vars

\* An anchor has just run and the cap applied: the statement before it had
\* taken less than 10 from a sanity of 100.
C11_AnchorCapped ==
  /\ host.pc = "running"
  /\ ctl = Ret(OkNone)
  /\ interp.sanity = 10000
  /\ interp.output_buffer # <<>>
  /\ Last(interp.output_buffer).text = "Reality temporarily stabilized"

\* C12: whenever the host can call get_sanity (no run_code in progress), it
\* returns a number that is not negative.
C12_GetSanityNeverNegative == host.pc = "idle" => get_sanity >= 0

\* The characters a transcript line holds at the least: its newline, and for
\* a line of Stmt::Echo the echoed text.
LineChars(line) ==
  IF line.text \in {"", "Echo: ", "Echo (blackletter)"} THEN Len(line.arg) + 1 ELSE 1

\* A lower bound of the length of lines lo..hi of the transcript buffer.
RECURSIVE CharsAtLeast(_, _, _)
CharsAtLeast(buffer, lo, hi) ==
  IF lo > hi THEN 0
  ELSE IF lo = hi THEN LineChars(buffer[lo])
  ELSE LET mid == (lo + hi) \div 2
       IN  CharsAtLeast(buffer, lo, mid) + CharsAtLeast(buffer, mid + 1, hi)

\* C13: the transcript buffer never holds more than 10,000 characters.
C13_TranscriptCapped ==
  CharsAtLeast(interp.output_buffer, 1, Len(interp.output_buffer)) <= 10000

Looked == host.pc = "unit" /\ ctl.m = "looked"

PhantomConsulted(name) ==
  interp.sanity < 2000 /\ name \in DOMAIN interp.phantom_variables

InnermostBinds(name) ==
  interp.call_stack # <<>> /\ name \in DOMAIN Last(interp.call_stack)

\* C14: a lookup consults the phantom map only when sanity < 20, then the
\* innermost frame only, then the global environment; lower frames are
\* never consulted and with sanity >= 20 no phantom is returned.
C14_LookupOrder ==
  Looked =>
    LET name  == ctl.name
        Seen(value) == <<apply_infection_corruption(interp, name, value, ctl.now)>>
    IN  /\ PhantomConsulted(name) => ctl.found = <<interp.phantom_variables[name]>>
        /\ ~PhantomConsulted(name) /\ InnermostBinds(name)
             => ctl.found = Seen(Last(interp.call_stack)[name])
        /\ ~PhantomConsulted(name) /\ ~InnermostBinds(name)
             /\ name \in DOMAIN interp.global_env
             => ctl.found = Seen(interp.global_env[name])
        /\ ~PhantomConsulted(name) /\ ~InnermostBinds(name)
             /\ name \notin DOMAIN interp.global_env
             => ctl.found = <<>>
        /\ interp.sanity >= 2000 => ctl.found # <<VPhantom>>

\* A lookup at sanity 20 of a name that has a phantom, that a lower frame
\* binds and the innermost frame does not: the global binding is returned.
C14_LowerFrameSkipped ==
  /\ Looked
  /\ interp.sanity >= 2000
  /\ ctl.name \in DOMAIN interp.phantom_variables
  /\ Len(interp.call_stack) = 2
  /\ ctl.name \in DOMAIN interp.call_stack[1]
  /\ ctl.name \notin DOMAIN interp.call_stack[2]
  /\ interp.infections = EmptyMap
  /\ ctl.found = <<VNumber(300)>>

Stored == host.pc = "unit" /\ ctl.m = "stored"

\* Map m is map old with name bound to value and nothing else changed.
BoundIn(m, old, name, value) ==
  /\ DOMAIN m = DOMAIN old \cup {name}
  /\ m[name] = value
  /\ \A n \in DOMAIN old \ {name} : m[n] = old[n]

\* C15: an assignment binds the name in the innermost frame when the call
\* stack is non-empty and in the global environment otherwise; no other
\* frame changes, and under a frame the global environment is unchanged.
C15_AssignmentScope ==
  Stored =>
    LET before == ctl.before
        depth  == Len(before.call_stack)
    IN  /\ Len(interp.call_stack) = depth
        /\ \A i \in 1..(depth - 1) : interp.call_stack[i] = before.call_stack[i]
        /\ depth > 0 =>
             /\ BoundIn(interp.call_stack[depth], before.call_stack[depth],
                        ctl.name, ctl.value)
             /\ interp.global_env = before.global_env
        /\ depth = 0 =>
             BoundIn(interp.global_env, before.global_env, ctl.name, ctl.value)

\* An assignment under two frames of a name that the lower frame and the
\* global environment bind to other values.
C15_InnermostOnly ==
  /\ Stored
  /\ Len(interp.call_stack) = 2
  /\ ctl.name \in DOMAIN interp.call_stack[1]
  /\ ctl.name \in DOMAIN interp.global_env
  /\ ctl.name \notin DOMAIN ctl.before.call_stack[2]
  /\ interp.call_stack[2][ctl.name] = VNumber(700)
  /\ interp.call_stack[1][ctl.name] = VNumber(100)
  /\ interp.global_env[ctl.name] = VNumber(300)

\* C16: every assignment appends one temporal echo as the newest entry;
\* temporal_echoes holds at most 50 entries after it, and an append that
\* makes the length 51 removes exactly the ten oldest and keeps the new one.
C16_EchoBuffer ==
  Stored =>
    LET before == ctl.before.temporal_echoes
        after  == interp.temporal_echoes
    IN  /\ after # <<>>
        /\ Last(after).variable_name = ctl.name
        /\ Last(after).ghost_value = ctl.value
        /\ Len(after) <= 50
        /\ Len(before) < 50 => Front(after) = before
        /\ Len(before) = 50 => Front(after) = SubSeq(before, 11, 50)

\* An assignment on a full echo buffer: 41 echoes are left, the eleventh
\* oldest first and the new one last.
C16_TenDrained ==
  /\ Stored
  /\ Len(ctl.before.temporal_echoes) = 50
  /\ Len(interp.temporal_echoes) = 41
  /\ interp.temporal_echoes[1] = ctl.before.temporal_echoes[11]
  /\ Last(interp.temporal_echoes).ghost_value = VNumber(700)

MemoryOp(op) == host.pc = "unit" /\ ctl.m = "memory" /\ ctl.op = op

\* The fragment queue of a name; an absent queue holds nothing.
Fragments(it, name) ==
  IF name \in DOMAIN it.memory_fragments THEN it.memory_fragments[name] ELSE <<>>

\* C17: no fragment queue ever holds more than 10 values; remembering an
\* 11th value evicts the oldest; manifest(name) removes and returns the
\* newest value queued, and null when the queue is empty or absent.
C17_FragmentQueue ==
  /\ \A name \in DOMAIN interp.memory_fragments :
       Len(interp.memory_fragments[name]) <= 10
  /\ MemoryOp("remember") =>
       LET found  == get_var(ctl.before, ctl.name, ctl.now)
           before == Fragments(ctl.before, ctl.name)
           after  == Fragments(interp, ctl.name)
       IN  /\ found = <<>> => interp = ctl.before
           /\ found # <<>> /\ Len(before) < 10 => after = Append(before, found[1])
           /\ found # <<>> /\ Len(before) = 10 => after = Append(Tail(before), found[1])
  /\ MemoryOp("manifest") =>
       LET before == Fragments(ctl.before, ctl.name)
           after  == Fragments(interp, ctl.name)
       IN  /\ before # <<>> => ctl.v = Last(before) /\ after = Front(before)
           /\ before = <<>> => ctl.v = VNull /\ after = <<>>

\* An 11th value remembered and then manifested: the oldest value has left
\* the queue and the 11th is returned.
C17_EleventhRemembered ==
  /\ MemoryOp("manifest")
  /\ ctl.name = NameVoid
  /\ Fragments(ctl.before, NameVoid) = Tail(StoredFragments(10)) \o <<VNumber(300)>>
  /\ ctl.v = VNumber(300)
  /\ Fragments(interp, NameVoid) = Tail(StoredFragments(10))

\* The texts echoed in this run at sanity 50 or more, in order.
Echoed ==
  LET lines == SelectSeq(interp.output_buffer, LAMBDA line : line.text = "")
  IN  [i \in 1..Len(lines) |-> lines[i].arg]

Ran(source) == \E i \in 1..Len(hist.sources) : hist.sources[i] = source

\* run_code has returned from the program `source`, run with sanity at or
\* above 40 throughout (nothing in these programs restores sanity).
ReturnedFrom(source) ==
  /\ Returned
  /\ host.session = "scopes"
  /\ Last(hist.sources) = source
  /\ interp.sanity >= 4000

\* C18: with sanity at or above 40, a name assigned only inside a scene is
\* undefined after the scene, and an assignment inside a scene leaves the
\* global binding of the name unchanged: the new value is read inside, the
\* original one after.
C18_SceneScoping ==
  /\ ReturnedFrom(ScopeProgram) /\ ~Ran(ShadowProgram) =>
       /\ host.last = "runtime_error"
       /\ host.error = Fail("Undefined: '{}'... or does it exist?", <<"x">>).msg
       /\ Echoed = <<>>
       /\ <<"x">> \notin DOMAIN interp.global_env
  /\ ReturnedFrom(ShadowProgram) =>
       /\ host.last = "completed"
       /\ Echoed = << <<"2">>, <<"1">> >>
       /\ interp.global_env[<<"x">>] = VNumber(100)
  /\ host.session = "scopes" /\ interp.sanity >= 4000 /\ Len(kont) > 0
       /\ kont[Len(kont)].k = "Scene" =>
       /\ interp.call_stack # <<>>
       /\ Ran(ShadowProgram) => interp.global_env[<<"x">>] = VNumber(100)
       /\ ~Ran(ShadowProgram) => <<"x">> \notin DOMAIN interp.global_env

\* Both programs have run to their ends, the scene of each having assigned x.
C18_ScenesEnded ==
  /\ ReturnedFrom(ShadowProgram)
  /\ hist.sources = <<ScopeProgram, ShadowProgram>>
  /\ Echoed = << <<"2">>, <<"1">> >>

\* The sanity with which the loop of LoopProgram is entered in the first
\* run: 100 less the 0.08 of the program's one statement.
LoopEntrySanity == NewInterpreter.sanity - 8

InLoop(i) == kont[i].k \in {"LoopCond", "LoopBody"}

FirstLoopRun == host.session = "loops" /\ host.runs = 1

\* In the first run of LoopProgram: inside the loop at most 1000 iterations
\* are complete and each has taken 0.5; after it 1001 iterations and the
\* penalty of 20 have been taken.
LoopAccount ==
  FirstLoopRun =>
    /\ \A i \in 1..Len(kont) :
         InLoop(i) => /\ kont[i].iterations <= 1000
                      /\ interp.sanity = LoopEntrySanity - 50 * kont[i].iterations
    /\ host.pc = "idle" =>
         /\ host.last = "completed"
         /\ Logged("Hastur, Hastur, Hastur!")
         /\ interp.sanity = LoopEntrySanity - 50 * 1001 - 2000

\* C19: a normal Hastur loop with an always-true condition and an empty
\* body terminates after at most 1001 iterations, having subtracted 0.5
\* sanity per iteration and the penalty of 20 once.
C19_LoopTerminates ==
  /\ []LoopAccount
  /\ (host.session = "loops" /\ host.pc = "running") ~> (host.pc = "idle")

\* The loop has been left by its cap.
C19_LoopLeftByCap ==
  /\ FirstLoopRun
  /\ host.pc = "idle"
  /\ Logged("You have spoken the name thrice. The loop consumes itself.")
  /\ interp.sanity = LoopEntrySanity - 50 * 1001 - 2000

\* C20: a normal Hastur loop executes its body at most 1000 times: no body
\* is executed after 1000 iterations are complete.
C20_BodyAtMost1000Times ==
  \A i \in 1..Len(kont) : kont[i].k = "LoopBody" => kont[i].iterations < 1000

\* C21: collapse applied to a superposition of no elements yields a runtime
\* error that run_code reports; the evaluation never ends by a panic.
C21_EmptyCollapseFails ==
  (kont # <<>> /\ Top.k = "Collapse") => host.pc # "panicked"

\* The transcripts, kept by the host, of runs of `source` on a fresh
\* interpreter.
FreshTranscripts(source) ==
  { hist.transcripts[i].output :
      i \in { j \in 1..Len(hist.transcripts) :
                hist.transcripts[j].fresh /\ hist.transcripts[j].source = source } }

\* C22: two run_code calls with the same source on two fresh interpreters
\* return identical transcripts, for a program that echoes a number and
\* keeps sanity near 100.
C22_SameTranscriptWhenFresh ==
  (Returned /\ host.session = "drift" /\ Len(hist.sources) = 1) =>
    \A output \in FreshTranscripts(hist.sources[1]) : output = interp.output_buffer

Tokenized == host.pc = "unit" /\ ctl.m = "tokens"

\* No character of the input starts a token.
StartsNoToken(input) ==
  \A i \in 1..Len(input) : input[i] \in {"!", "@", " ", "\n"}

\* C23: for every input tokenize terminates and returns a token list that
\* holds the end-of-input token exactly once, as its last element;
\* characters that start no token, a bare `!` among them, emit no token.
C23_LexerNeverFails ==
  Tokenized =>
    LET tokens == ctl.lx.tokens
    IN  /\ ctl.lx.done
        /\ tokens # <<>>
        /\ \A i \in 1..Len(tokens) : tokens[i].t = "Eof" <=> i = Len(tokens)
        /\ StartsNoToken(ctl.input) => tokens = <<Tok("Eof")>>

\* A bare `!` between two tokens: the two tokens and end-of-input are
\* returned.
C23_BareBangSkipped ==
  /\ Tokenized
  /\ ctl.input = <<"=", "!", "-">>
  /\ ctl.lx.tokens = <<Tok("Becomes"), Tok("Torn"), Tok("Eof")>>

\* The first run of CountProgram on an interpreter.
Counting == host.session = "counting" /\ Len(hist.sources) = 1

\* C24: in `mask i -> 0; Hastur(i < 3) { mask i -> i + 1; echo(i); }` the
\* body's assignment updates the binding the condition reads: the body runs
\* exactly 3 times, 1, 2, 3 are echoed in that order, and the loop exits.
C24_CountingLoop ==
  Counting =>
    /\ interp.call_stack = <<>>
    /\ \A k \in 1..Len(kont) :
         /\ kont[k].k = "LoopBody" =>
              /\ kont[k].iterations < 3
              /\ interp.global_env[<<"i">>] \in {VNumber(100 * kont[k].iterations),
                                                 VNumber(100 * (kont[k].iterations + 1))}
         /\ kont[k].k = "LoopCond" =>
              /\ kont[k].iterations <= 3
              /\ interp.global_env[<<"i">>] = VNumber(100 * kont[k].iterations)
    /\ host.pc = "idle" =>
         /\ host.last = "completed"
         /\ Echoed = << <<"1">>, <<"2">>, <<"3">> >>
         /\ interp.global_env[<<"i">>] = VNumber(300)

\* The program has run to its end after three iterations.
C24_ThreeEchoed ==
  /\ Counting
  /\ host.pc = "idle"
  /\ Echoed = << <<"1">>, <<"2">>, <<"3">> >>
  /\ ~Logged("Hastur, Hastur, Hastur!")

\* A call of run_code whose source fails to parse, from start to return.
ParseFails ==
  /\ host.pc \in {"idle", "new"}
  /\ host'.runs = host.runs + 1
  /\ host'.last = "parse_error"
  /\ host'.pc = "idle"

\* Everything of the interpreter but the transcript buffer.
Kept(it) == [it EXCEPT !.output_buffer = <<>>]

ParseFailureKeepsState ==
  ParseFails => /\ Kept(interp') = Kept(interp)
                /\ kont' = kont
                /\ ctl' = ctl

\* C25: when the source fails to parse, run_code executes no statement and
\* leaves all interpreter state but the transcript buffer unchanged.
C25_ParseErrorShortCircuits == [][ParseFailureKeepsState]_vars

\* A source has failed to parse on an interpreter that an earlier program
\* left with bindings and less sanity.
C25_FailedAfterARun ==
  /\ host.pc = "idle"
  /\ host.last = "parse_error"
  /\ Len(hist.sources) = 2
  /\ Logged("Parse error")
  /\ interp.global_env # EmptyMap
  /\ interp.temporal_echoes # <<>>
  /\ interp.sanity < 10000

\* C26: drift is a function of the interpreter's entropy counter and sanity
\* only: whenever the interpreter is running, the drift it computes is the
\* same under every reading of the clock.
C26_DriftFromStateOnly ==
  host.pc = "running" =>
    \A t1, t2 \in TanhReadings :
      temporal_drift(interp, [tanh |-> t1]) = temporal_drift(interp, [tanh |-> t2])

Forgotten == host.pc = "unit" /\ ctl.m = "forgotten"

\* C27: forget removes the binding from the innermost frame when that frame
\* binds the name, and otherwise from the global environment, also when a
\* frame exists that does not bind the name; no other binding changes.
C27_ForgetScope ==
  Forgotten =>
    LET before == ctl.before
        depth  == Len(before.call_stack)
        inner  == depth > 0 /\ ctl.name \in DOMAIN before.call_stack[depth]
    IN  /\ Len(interp.call_stack) = depth
        /\ \A i \in 1..(depth - 1) : interp.call_stack[i] = before.call_stack[i]
        /\ inner => /\ interp.call_stack[depth] = MapRemove(before.call_stack[depth], ctl.name)
                    /\ interp.global_env = before.global_env
        /\ ~inner => /\ depth > 0 => interp.call_stack[depth] = before.call_stack[depth]
                     /\ interp.global_env = MapRemove(before.global_env, ctl.name)

\* run_code has returned from the first program, `source`, that this
\* interpreter was given.
FirstReturnFrom(source) ==
  /\ Returned
  /\ host.session = "closures"
  /\ hist.sources = <<source>>

UndefinedA == Fail("Undefined: '{}'... or does it exist?", <<"a">>).msg

\* C28: inside a function body a name resolves in the callee's own frame or
\* in the global environment only: a name bound only in the caller's frame,
\* or only in the frame in which the function was defined, is undefined.
C28_NoClosures ==
  /\ FirstReturnFrom(CallerProgram) =>
       /\ host.last = "runtime_error"
       /\ host.error = UndefinedA
       /\ Echoed = << <<"1">> >>
  /\ FirstReturnFrom(DefinerProgram) =>
       /\ host.last = "runtime_error"
       /\ host.error = UndefinedA
       /\ Echoed = <<>>
  /\ FirstReturnFrom(VisibleProgram) =>
       /\ host.last = "completed"
       /\ Echoed = << <<"1">>, <<"2">>, <<"3">> >>

\* The body of g is being executed, called from the body of f, whose frame
\* binds a: a is read there.
C28_CalleeReadsCallerName ==
  /\ host.session = "closures"
  /\ hist.sources = <<CallerProgram>>
  /\ host.pc = "running"
  /\ Len(interp.call_stack) = 2
  /\ <<"a">> \in DOMAIN interp.call_stack[1]
  /\ ctl = Eval([e |-> "Identifier", name |-> <<"a">>])

\* The first run of CarcosaProgram on an interpreter.
InCarcosaRun == host.session = "carcosa" /\ Len(hist.sources) = 1

\* C29: once a Carcosa statement has executed, no later statement of its
\* block runs, nor any later statement or iteration of the enclosing scene,
\* Cassilda and loop blocks up to the nearest call, which returns the
\* Carcosa value (null without an expression); at top level the program
\* ends successfully and the remaining statements do not run.
C29_CarcosaShortCircuits ==
  InCarcosaRun =>
    /\ \A i \in 1..Len(Echoed) : Echoed[i] \in {<<"7">>, Display(VNull)}
    /\ \A k \in 1..Len(kont) : kont[k].k \in {"LoopCond", "LoopBody"} => kont[k].iterations = 0
    /\ ~Logged("Hastur, Hastur, Hastur!")
    /\ host.pc = "idle" =>
         /\ host.last = "completed"
         /\ Echoed = << <<"7">>, Display(VNull) >>
         /\ interp.call_stack = <<>>
         /\ interp.sanity > 9900

\* The program has ended after its three Carcosa statements.
C29_ReturnedThrice ==
  /\ InCarcosaRun
  /\ host.pc = "idle"
  /\ host.last = "completed"
  /\ Echoed = << <<"7">>, Display(VNull) >>

\* A scene statement returns, with any result.
SceneExit == Returning("Scene") /\ kont' = Front(kont)

SceneRestoresDepth == SceneExit => Len(interp'.call_stack) = Top.depth

\* C30: a scene statement leaves call_stack at the depth it had before the
\* statement on every exit path: completion of the body, a Carcosa return
\* out of the body, and a runtime error raised in the body.
C30_SceneKeepsDepth == [][SceneRestoresDepth]_vars

LoopTested == Returning("LoopCond") /\ ctl.res.r = "val"

LoopContinued == kont' # <<>> /\ kont'[Len(kont')].k = "LoopBody"

\* Some clock reading makes a Cassilda with this condition value take (or not
\* take) its branch in this interpreter state.
CassildaCould(take) ==
  \E now \in NowReadings, tanh \in TanhReadings :
    evaluate_condition(interp, ctl.res.v,
                       temporal_drift(interp, [tanh |-> tanh]), now) = take

LoopDecidesAsCassilda ==
  (LoopTested /\ ~CondPanics(ctl.res.v) /\ kont' # kont)
    => CassildaCould(LoopContinued)

\* C31: whenever a Hastur loop tests its condition value, it continues only
\* if a Cassilda with the same value in the same interpreter state could take
\* its branch, and leaves only if a Cassilda could skip its branch.
C31_LoopUsesConditionEvaluator == [][LoopDecidesAsCassilda]_vars

RewriteStep ==
  host.pc = "running" /\ ctl.m = "stmt" /\ ctl.stmt.s = "Rewrite" /\ ctl'.m = "ret"

Frayed ==
  /\ Len(interp'.output_buffer) = Len(interp.output_buffer) + 1
  /\ Last(interp'.output_buffer).text = "{} mutations... reality frays"
  /\ interp'.sanity = enter_stmt(interp).sanity - 200

TenthRewriteFrays ==
  RewriteStep =>
    IF hist'.rewrites = hist.rewrites
      THEN interp' = leave_stmt(enter_stmt(interp))
      ELSE Frayed <=> hist'.rewrites % 10 = 0

\* C32: a rewrite statement on an unbound name changes nothing but the
\* bookkeeping every statement does; one that finds its name bound logs the
\* "reality frays" line and takes 2 from sanity exactly when it is the 10th,
\* 20th, ... such statement this interpreter has executed.
C32_EveryTenthRewriteFrays == [][TenthRewriteFrays]_vars

\* run_code has returned from the first program this interpreter was given, a
\* whisper whose program was handed to execute and failed there.
WhisperedProgramFailed ==
  /\ Returned
  /\ hist.sources = <<Whisper(UndefinedCode)>>
  /\ Len(hist.whispers) = 1
  /\ host.last = "runtime_error"

\* C33: a whisper whose program fails with a runtime error does not cost the
\* 5 points of sanity of a whisper that succeeds: after a run of one such
\* whisper, the interpreter has lost less than 5 of its initial sanity.
C33_FailedWhisperKeepsSanity ==
  WhisperedProgramFailed => interp.sanity > NewInterpreter.sanity - 500

ParseReturned == ctl.m = "parsed" /\ ctl.result.r = "ok"

HasToken(tokens, t) == \E i \in 1..Len(tokens) : tokens[i].t = t

\* C34: parse_program never replaces a parsed statement: from a token list
\* with no whisper token and no infect token it returns no whisper statement
\* and no infect statement.
C34_ParserSanityAltersNothing ==
  (ParseReturned /\ ~HasToken(ctl.tokens, "Whisper") /\ ~HasToken(ctl.tokens, "Infect"))
    => \A i \in 1..Len(ctl.result.v) : ctl.result.v[i].s \notin {"Whisper", "Infect"}

Dispatched == host.pc = "running" /\ ctl.m = "execute" /\ ctl'.m = "stmt"

\* run_code is at the first statement of a program, or between two.
TopLevelBoundary ==
  /\ host.pc = "running"
  /\ kont = <<[k |-> "run_code"]>>
  /\ ctl.m = "execute"
  /\ ctl.statements # <<>>

NegativeSanityAbsorbs ==
  (interp.sanity < 0 /\ ~Renewed) =>
    /\ interp'.sanity < 0
    /\ ~Dispatched
    /\ TopLevelBoundary => ctl' = Ret(Depleted)
    /\ (Returning("run_code") /\ ctl.res = Depleted) =>
         (host'.last = "runtime_error" /\ host'.error = Depleted.msg)

\* C35: once the sanity of an interpreter is below 0, it stays below 0 and
\* that interpreter dispatches no statement again; a run_code that comes to
\* a statement of its program then fails with "Sanity depleted" and reports
\* it as the runtime error.
C35_NegativeSanityAbsorbs == [][NegativeSanityAbsorbs]_vars

\* A second run_code on an interpreter whose sanity the first, a loop stopped
\* by its cap, had left below 0 has returned with the sanity-depleted runtime
\* error.
C35_LaterRunDepleted ==
  /\ Returned
  /\ host.session = "loops"
  /\ host.runs = 2
  /\ Len(hist.sources) = 2
  /\ interp.sanity < 0
  /\ host.last = "runtime_error"
  /\ host.error = Depleted.msg
  /\ interp.execution_depth = 0

\* The statement being dispatched belongs to a whispered program: an
\* accepted whisper is executing and no function call was made since.
FromWhisper ==
  /\ host.pc = "running"
  /\ ctl.m = "stmt"
  /\ \E i \in 1..Len(kont) :
       /\ "whisper" \in DOMAIN kont[i]
       /\ \A j \in (i + 1)..Len(kont) : kont[j].k # "CallBody"

\* C36: no statement executed from an accepted whisper source is a whisper,
\* an infect, a rift loop or a Carcosa statement.
C36_WhisperedCodeIsTame ==
  FromWhisper =>
    /\ ctl.stmt.s \notin {"Whisper", "Infect", "Carcosa"}
    /\ ctl.stmt.s = "Hastur" => ~ctl.stmt.is_rift

NumberStep ==
  host.pc = "running" /\ ctl.m = "eval" /\ ctl.expr.e = "Number" /\ ctl'.m = "ret"

\* C37: reality_stable is true in every state, and the evaluation of a number
\* literal returns the literal's value, whatever the sanity.
C37_RealityStable ==
  /\ [](interp.reality_stable)
  /\ [][NumberStep => ctl' = Ret(Value(VNumber(ctl.expr.n)))]_vars

\* The left operand of a division, the literal 1, has been evaluated to 1
\* with sanity below 40 by an interpreter that has executed no anchor
\* statement.
C37_LiteralBelow40 ==
  /\ Returning("BinLeft")
  /\ hist.sources = <<DepleteProgram>>
  /\ interp.sanity < 4000
  /\ Top.expr.left.e = "Number"
  /\ ctl.res = Value(VNumber(Top.expr.left.n))

\* sanity_check has returned from an interpreter on which it restores the
\* newest temporal echo.
EchoRestored ==
  /\ host.pc = "unit"
  /\ ctl.m = "checked"
  /\ ctl.before.sanity >= 0
  /\ ctl.before.sanity < 4000
  /\ ctl.before.temporal_echoes # <<>>
  /\ Last(ctl.before.temporal_echoes).stability > 3000

\* C38: a restoring bleed-through binds the newest echo's value to its name
\* in the innermost frame (in the global environment when the call stack is
\* empty) and in no other scope, and replaces that echo by one of the same
\* name and value written at the present sanity: the buffer keeps its length.
C38_EchoRestoredInnermost ==
  EchoRestored =>
    LET before == ctl.before
        depth  == Len(before.call_stack)
        echo   == Last(before.temporal_echoes)
    IN  /\ Len(interp.call_stack) = depth
        /\ \A i \in 1..(depth - 1) : interp.call_stack[i] = before.call_stack[i]
        /\ depth > 0 =>
             /\ BoundIn(interp.call_stack[depth], before.call_stack[depth],
                        echo.variable_name, echo.ghost_value)
             /\ interp.global_env = before.global_env
        /\ depth = 0 =>
             BoundIn(interp.global_env, before.global_env,
                     echo.variable_name, echo.ghost_value)
        /\ Len(interp.temporal_echoes) = Len(before.temporal_echoes)
        /\ Front(interp.temporal_echoes) = Front(before.temporal_echoes)
        /\ Last(interp.temporal_echoes) = [echo EXCEPT !.stability = before.sanity]

\* A restore under two frames from a full buffer: the name, bound only in
\* the global environment before, is bound to the echo's value in the
\* innermost frame, the global binding is as it was, and the buffer still
\* holds 50 echoes.
C38_RestoredUnderFrames ==
  /\ EchoRestored
  /\ Len(interp.call_stack) = 2
  /\ NameY \notin DOMAIN ctl.before.call_stack[2]
  /\ NameY \notin DOMAIN interp.call_stack[1]
  /\ interp.call_stack[2][NameY] = VNumber(50)
  /\ NameY \in DOMAIN interp.global_env
  /\ interp.global_env[NameY] = VBoolean(TRUE)
  /\ Len(ctl.before.temporal_echoes) = 50
  /\ Len(interp.temporal_echoes) = 50

====
